---- MODULE Spec2Model ----
(***************************************************************************)
(* Pricing engine of the salon reservation backend: the coupon table, the  *)
(* order table and the order-detail table, as committed in the database,   *)
(* and the handlers of app/crud/coupon_crud.py and app/crud/order_crud.py  *)
(* that change them.  A handler is one action; the store calls at which it *)
(* can be aborted are its commit points (see Commit).                      *)
(***************************************************************************)
EXTENDS Integers, Sequences, FiniteSets, TLC

\* ------------------------------------------------------------------ bounds
MaxOrders == 2         \* order rows
MaxDetails == 2        \* order-detail rows
MaxTime == 1           \* the clock runs over 0..MaxTime
MaxCoupons == 1        \* coupon rows, where the admin creates them (SpecV)
MaxSessions == 2       \* requests in service at once (SpecC)
MaxTimeOffs == 1       \* time-off rows (SpecA)
MaxAppointments == 2   \* appointment rows (SpecB)
MaxClosures == 1       \* closure rows (SpecO)
MaxSchedules == 2      \* schedule rows while requests interleave (SpecD)

\* -------------------------------------------------------- program constants
BasisPoints == 10000   \* percentage discounts are in basis points

\* An Optional[...] column: <<>> is None, <<v>> is the value v.
None == <<>>
Some(v) == <<v>>
IsNone(x) == x = <<>>
Val(x) == x[1]

\* Python truthiness of an Optional[int]: None and 0 are both false.
Truthy(x) == ~IsNone(x) /\ Val(x) # 0

\* Python truthiness of an Optional[datetime]: only None is false.
TruthyTime(x) == ~IsNone(x)

\* ------------------------------------------------------------------- state
VARIABLES
    coupons,   \* coupon_id -> Coupon row (committed)
    orders,    \* order_id -> Order row (committed)
    details,   \* order_detail_id -> OrderDetail row (committed)
    now,       \* datetime.utcnow()
    last,      \* the last request served: what was asked and how it ended
    sessions,  \* request in service -> what its Session holds, not yet committed
    schedules, \* schedule_id -> StylistSchedules row (committed)
    time_offs, \* time_off_id -> StylistTimeOff row (committed)
    appointments,   \* appointment_id -> Appointment row (committed)
    business_hours, \* hour_id -> StoreBusinessHours row (committed)
    closures        \* closure_id -> StoreClosures row (committed)

vars == <<coupons, orders, details, now, last, sessions, schedules, time_offs,
          appointments, business_hours, closures>>

\* The tables of the pricing engine, the clock and the open sessions.
pricing == <<coupons, orders, details, now, sessions>>

\* The appointment table.
booking == <<appointments>>

\* The tables of the store's opening hours.
store == <<business_hours, closures>>

\* The tables of the availability engine.
scheduling == <<schedules, time_offs>>

Sessions == 1..MaxSessions

OrderIds == 1..MaxOrders
DetailIds == 1..MaxDetails
Times == 0..MaxTime

\* ------------------------------------------------------------ coupon inputs
\* CouponCreate payloads (model_dump of the request body).
CouponInputs ==
    { [code |-> "SAVE",
       discount_type |-> "percentage", discount_value |-> 5000,
       min_order_amount |-> Some(200), max_discount_amount |-> Some(120),
       usage_limit |-> None, is_active |-> TRUE,
       start_at |-> None, end_at |-> None],
      [code |-> "FLAT",
       discount_type |-> "fixed", discount_value |-> 150,
       min_order_amount |-> None, max_discount_amount |-> None,
       usage_limit |-> Some(1), is_active |-> TRUE,
       start_at |-> None, end_at |-> Some(0)],
      [code |-> "GONE",
       discount_type |-> "fixed", discount_value |-> 50,
       min_order_amount |-> None, max_discount_amount |-> None,
       usage_limit |-> Some(1), is_active |-> FALSE,
       start_at |-> None, end_at |-> None] }

\* The coupon codes a request can name; no coupon is ever created for the last.
Codes == {c.code : c \in CouponInputs} \cup {"NONE"}

DiscountTypes == {"percentage", "fixed"}

\* The validators of CouponBase.
CouponCreateValid(c) ==
    /\ c.discount_type \in DiscountTypes
    /\ c.discount_value >= 0
    /\ ~(c.discount_type = "percentage" /\ c.discount_value > BasisPoints)
    /\ ~(c.discount_type = "fixed" /\ c.discount_value <= 0)
    /\ (~IsNone(c.min_order_amount) => Val(c.min_order_amount) >= 0)
    /\ (~IsNone(c.max_discount_amount) => Val(c.max_discount_amount) >= 0)
    /\ (~IsNone(c.usage_limit) => Val(c.usage_limit) >= 1)
    /\ ~(TruthyTime(c.end_at) /\ TruthyTime(c.start_at)
         /\ Val(c.end_at) <= Val(c.start_at))
    /\ ~(Truthy(c.max_discount_amount) /\ c.discount_type = "percentage"
         /\ Val(c.max_discount_amount) <= 0)

\* CouponUpdate payloads, as model_dump(exclude_unset=True) gives them: only
\* the fields the request sets.
UpdateInputs ==
    { [usage_limit |-> Some(1)] }

\* The validators of CouponUpdate: discount_value is checked against the
\* discount_type of the same request only.
CouponUpdateValid(u) ==
    /\ ("discount_type" \in DOMAIN u => u.discount_type \in DiscountTypes)
    /\ ("discount_value" \in DOMAIN u => u.discount_value >= 0)
    /\ (("discount_value" \in DOMAIN u /\ "discount_type" \in DOMAIN u) =>
           /\ ~(u.discount_type = "percentage" /\ u.discount_value > BasisPoints)
           /\ ~(u.discount_type = "fixed" /\ u.discount_value <= 0))
    /\ ("min_order_amount" \in DOMAIN u /\ ~IsNone(u.min_order_amount)
           => Val(u.min_order_amount) >= 0)
    /\ ("max_discount_amount" \in DOMAIN u /\ ~IsNone(u.max_discount_amount)
           => Val(u.max_discount_amount) >= 0)
    /\ ("usage_limit" \in DOMAIN u /\ ~IsNone(u.usage_limit)
           => Val(u.usage_limit) >= 1)

\* -------------------------------------------------------------- the tables
\* uuid4(): an id no row of the table has.
FreshId(table, ids) == CHOOSE i \in ids \ DOMAIN table : \A j \in ids \ DOMAIN table : i <= j

Put(table, k, row) == [x \in DOMAIN table \cup {k} |-> IF x = k THEN row ELSE table[x]]

Drop(table, ks) == [x \in DOMAIN table \ ks |-> table[x]]

\* The committed database as one value.
Db == [coupons |-> coupons, orders |-> orders, details |-> details]

\* ------------------------------------------------------------ coupon engine
get_coupon_by_id(cs, coupon_id) ==
    IF ~IsNone(coupon_id) /\ Val(coupon_id) \in DOMAIN cs THEN coupon_id ELSE None

get_coupon_by_code(cs, code) ==
    IF \E i \in DOMAIN cs : cs[i].code = code
    THEN Some(CHOOSE i \in DOMAIN cs : cs[i].code = code)
    ELSE None

\* _calculate_discount, a fixed discount not held to the order amount.
calculate_discount_unclamped(coupon, order_amount) ==
    IF coupon.discount_type = "percentage"
    THEN LET discount_amount == (order_amount * coupon.discount_value) \div BasisPoints
         IN  IF Truthy(coupon.max_discount_amount)
                /\ discount_amount > Val(coupon.max_discount_amount)
             THEN Val(coupon.max_discount_amount)
             ELSE discount_amount
    ELSE IF coupon.discount_type = "fixed"
    THEN coupon.discount_value
    ELSE 0

_calculate_discount(coupon, order_amount) ==
    IF coupon.discount_type = "percentage"
    THEN LET discount_amount == (order_amount * coupon.discount_value) \div BasisPoints
         IN  IF Truthy(coupon.max_discount_amount)
                /\ discount_amount > Val(coupon.max_discount_amount)
             THEN Val(coupon.max_discount_amount)
             ELSE discount_amount
    ELSE IF coupon.discount_type = "fixed"
    THEN IF coupon.discount_value > order_amount
         THEN order_amount
         ELSE coupon.discount_value
    ELSE 0

Invalid(order_amount, msg) ==
    [is_valid |-> FALSE, coupon_id |-> None, discount_amount |-> 0,
     final_amount |-> order_amount, error_message |-> msg]

\* validate_coupon, the expiry looked at before is_active.
validate_coupon_expiry_first(cs, t, coupon_code, order_amount) ==
    LET found == get_coupon_by_code(cs, coupon_code) IN
    IF IsNone(found) THEN Invalid(order_amount, "not found")
    ELSE LET coupon == cs[Val(found)] IN
    IF TruthyTime(coupon.end_at) /\ t > Val(coupon.end_at)
    THEN Invalid(order_amount, "expired")
    ELSE IF ~coupon.is_active THEN Invalid(order_amount, "disabled")
    ELSE IF TruthyTime(coupon.start_at) /\ t < Val(coupon.start_at)
    THEN Invalid(order_amount, "not yet active")
    ELSE IF Truthy(coupon.usage_limit) /\ coupon.used_count >= Val(coupon.usage_limit)
    THEN Invalid(order_amount, "usage limit reached")
    ELSE IF Truthy(coupon.min_order_amount) /\ order_amount < Val(coupon.min_order_amount)
    THEN Invalid(order_amount, "below minimum")
    ELSE LET discount_amount == _calculate_discount(coupon, order_amount) IN
         [is_valid |-> TRUE, coupon_id |-> found,
          discount_amount |-> discount_amount,
          final_amount |-> order_amount - discount_amount,
          error_message |-> "none"]

validate_coupon(cs, t, coupon_code, order_amount) ==
    LET found == get_coupon_by_code(cs, coupon_code) IN
    IF IsNone(found) THEN Invalid(order_amount, "not found")
    ELSE LET coupon == cs[Val(found)] IN
    IF ~coupon.is_active THEN Invalid(order_amount, "disabled")
    ELSE IF TruthyTime(coupon.start_at) /\ t < Val(coupon.start_at)
    THEN Invalid(order_amount, "not yet active")
    ELSE IF TruthyTime(coupon.end_at) /\ t > Val(coupon.end_at)
    THEN Invalid(order_amount, "expired")
    ELSE IF Truthy(coupon.usage_limit) /\ coupon.used_count >= Val(coupon.usage_limit)
    THEN Invalid(order_amount, "usage limit reached")
    ELSE IF Truthy(coupon.min_order_amount) /\ order_amount < Val(coupon.min_order_amount)
    THEN Invalid(order_amount, "below minimum")
    ELSE LET discount_amount == _calculate_discount(coupon, order_amount) IN
         [is_valid |-> TRUE, coupon_id |-> found,
          discount_amount |-> discount_amount,
          final_amount |-> order_amount - discount_amount,
          error_message |-> "none"]

\* used_count += 1 on the row, when the row exists.
increment_usage_count(cs, coupon_id) ==
    IF IsNone(get_coupon_by_id(cs, coupon_id)) THEN cs
    ELSE [cs EXCEPT ![Val(coupon_id)].used_count = @ + 1]

\* used_count -= 1 on the row, when the row exists and its count is positive.
decrement_usage_count(cs, coupon_id) ==
    IF IsNone(get_coupon_by_id(cs, coupon_id)) THEN cs
    ELSE IF cs[Val(coupon_id)].used_count > 0
    THEN [cs EXCEPT ![Val(coupon_id)].used_count = @ - 1]
    ELSE cs

\* Whether increment_usage_count / decrement_usage_count reach their db.commit().
increment_commits(cs, coupon_id) == ~IsNone(get_coupon_by_id(cs, coupon_id))

decrement_commits(cs, coupon_id) ==
    /\ ~IsNone(get_coupon_by_id(cs, coupon_id))
    /\ cs[Val(coupon_id)].used_count > 0

\* ------------------------------------------------------------- the session
\* SessionLocal = sessionmaker(autocommit=False, autoflush=False, ...): a query
\* does not flush the session first, so it reads the rows of the database and
\* not the session's pending inserts, updates and deletes.
autoflush == FALSE

Visible(db_rows, session_rows) == IF autoflush THEN session_rows ELSE db_rows

\* A handler's db.commit() calls give the database after each of them, in
\* order.  fail = 0: every store call succeeds and the last commit stands.
\* fail = k > 0: the k-th commit raises; get_db closes the session, which
\* rolls back what was not committed, and what the earlier commits wrote
\* stays.  (A failing flush or query before the k-th commit ends the same.)
Landed(commits, fail) ==
    IF commits = <<>> THEN Db
    ELSE IF fail = 0 THEN commits[Len(commits)]
    ELSE IF fail = 1 THEN Db
    ELSE commits[fail - 1]

\* A handler served from start to end with no other request in between: the
\* database moves to what landed, and the requests in service are as they were.
Commit(commits, fail) ==
    /\ fail \in 0..Len(commits)
    /\ coupons' = Landed(commits, fail).coupons
    /\ orders' = Landed(commits, fail).orders
    /\ details' = Landed(commits, fail).details
    /\ UNCHANGED <<sessions, scheduling, booking, store>>

\* What is kept of a request: the handler (op), the order and the coupon code
\* it names, whether that code validated (ok; TRUE when nothing is validated),
\* the commit the store failed at (fail, 0 for none), the coupon the order held
\* and the used_count the named coupon had before the request, and (undo)
\* for a removeCouponFromOrder that follows at once a completed
\* applyCouponToOrder on the same order, that request; and (result) for a
\* validate request, the amount asked, the time served and the result returned.
Request(op, order_id, code, ok, fail, held, used) ==
    [op |-> op, order |-> order_id, code |-> code, ok |-> ok, fail |-> fail,
     held |-> held, used |-> used, undo |-> None, result |-> None]

\* ------------------------------------------------------------ order inputs
\* OrderDetailCreate payloads.
ItemInputs ==
    { [quantity |-> 1, price_per_item |-> 100],
      [quantity |-> 2, price_per_item |-> 100] }

\* OrderDetailUpdate payloads, as model_dump(exclude_unset=True) gives them.
ItemUpdateInputs ==
    { [quantity |-> 1] }

ItemLists == UNION { [1..n -> ItemInputs] : n \in 1..MaxDetails }

RECURSIVE SumSeq(_)
SumSeq(s) == IF s = <<>> THEN 0 ELSE Head(s) + SumSeq(Tail(s))

RECURSIVE SumSet(_, _)
\* func.sum(OrderDetail.total_price) over the rows ks of ds; NULL over no row.
SumSet(ds, ks) ==
    IF ks = {} THEN 0
    ELSE LET k == CHOOSE x \in ks : TRUE IN ds[k].total_price + SumSet(ds, ks \ {k})

DetailsOf(ds, order_id) == {k \in DOMAIN ds : ds[k].order_id = order_id}

RECURSIVE AddDetails(_, _, _)
\* One OrderDetail row per item of the request, each under a fresh id.
AddDetails(ds, order_id, items) ==
    IF items = <<>> THEN ds
    ELSE AddDetails(
             Put(ds, FreshId(ds, DetailIds),
                 [order_id |-> order_id,
                  quantity |-> Head(items).quantity,
                  price_per_item |-> Head(items).price_per_item,
                  total_price |-> Head(items).quantity * Head(items).price_per_item]),
             order_id, Tail(items))

\* ------------------------------------------------------------ coupon admin
\* Coupon(coupon_id=uuid4(), **coupon.model_dump()), used_count at its default.
create_coupon(cs, coupon) ==
    Put(cs, FreshId(cs, 1..(Cardinality(DOMAIN cs) + 1)),
        [code |-> coupon.code,
         discount_type |-> coupon.discount_type,
         discount_value |-> coupon.discount_value,
         min_order_amount |-> coupon.min_order_amount,
         max_discount_amount |-> coupon.max_discount_amount,
         usage_limit |-> coupon.usage_limit,
         used_count |-> 0,
         is_active |-> coupon.is_active,
         start_at |-> coupon.start_at,
         end_at |-> coupon.end_at])

RECURSIVE CreateAll(_, _)
CreateAll(cs, inputs) ==
    IF inputs = {} THEN cs
    ELSE LET c == CHOOSE x \in inputs : CouponCreateValid(x) /\ IsNone(get_coupon_by_code(cs, x.code))
         IN  CreateAll(create_coupon(cs, c), inputs \ {c})

\* The coupon table once the admin has created every coupon of CouponInputs.
InitialCoupons == CreateAll(<<>>, CouponInputs)

CouponIds == DOMAIN InitialCoupons

\* setattr(coupon, field, value) for every field the request sets.
update_coupon_commits(coupon_id, coupon_update) ==
    LET row == [f \in DOMAIN coupons[coupon_id] |->
                   IF f \in DOMAIN coupon_update THEN coupon_update[f]
                   ELSE coupons[coupon_id][f]]
    IN  << [Db EXCEPT !.coupons = [coupons EXCEPT ![coupon_id] = row]] >>

UpdateCoupon(coupon_id, coupon_update, fail) ==
    /\ coupon_id \in DOMAIN coupons
    /\ CouponUpdateValid(coupon_update)
    /\ Commit(update_coupon_commits(coupon_id, coupon_update), fail)
    /\ last' = Request("update_coupon", 0, Some(coupons[coupon_id].code), TRUE, fail, None, 0)
    /\ UNCHANGED now

\* The create_coupon router: 409 on a code that exists, else create_coupon.
create_coupon_commits(coupon) ==
    << [Db EXCEPT !.coupons = create_coupon(coupons, coupon)] >>

CreateCoupon(coupon, fail) ==
    /\ Cardinality(DOMAIN coupons) < MaxCoupons
    /\ CouponCreateValid(coupon)
    /\ IsNone(get_coupon_by_code(coupons, coupon.code))
    /\ Commit(create_coupon_commits(coupon), fail)
    /\ last' = Request("create_coupon", 0, Some(coupon.code), TRUE, fail, None, 0)
    /\ UNCHANGED now

\* ---------------------------------------------------------------- validate
\* CouponValidation.order_amount values (ge=0).
Amounts == {0, 1, 100, 300}

\* The validate router, counting a use of the coupon it validates.
validate_coupon_commits_counts(coupon_code, order_amount) ==
    IF validate_coupon(coupons, now, coupon_code, order_amount).is_valid
    THEN << [Db EXCEPT !.coupons = increment_usage_count(coupons,
                validate_coupon(coupons, now, coupon_code, order_amount).coupon_id)] >>
    ELSE <<>>

\* The validate router and validate_coupon assign to no row and never commit.
validate_coupon_commits(coupon_code, order_amount) == <<>>

\* What a validate request leaves in last: the request, the time it was
\* served at and the CouponValidationResult returned.
Validate(coupon_code, order_amount) ==
    /\ Commit(validate_coupon_commits(coupon_code, order_amount), 0)
    /\ last' = [Request("validate_coupon", 0, Some(coupon_code),
                        validate_coupon(coupons, now, coupon_code, order_amount).is_valid,
                        0, None, 0)
                   EXCEPT !.result = Some([amount |-> order_amount, at |-> now,
                                           result |-> validate_coupon(coupons, now, coupon_code, order_amount)])]
    /\ UNCHANGED now

\* ------------------------------------------------------------ create_order
\* order: [coupon_code : Optional code, details : sequence of items]
create_order_validation(order) ==
    LET subtotal == SumSeq([i \in DOMAIN order.details |->
                       order.details[i].quantity * order.details[i].price_per_item])
    IN  IF ~IsNone(order.coupon_code)
        THEN validate_coupon(coupons, now, Val(order.coupon_code), subtotal)
        ELSE Invalid(subtotal, "no code")

\* The session of create_order after db.add(db_order), db.flush() and the
\* db.add(order_detail) of every item.
create_order_session(order) ==
    LET subtotal == SumSeq([i \in DOMAIN order.details |->
                       order.details[i].quantity * order.details[i].price_per_item])
        coupon_validation == create_order_validation(order)
        coupon_id == IF coupon_validation.is_valid
                     THEN coupon_validation.coupon_id ELSE None
        discount_amount == IF coupon_validation.is_valid
                           THEN coupon_validation.discount_amount ELSE 0
        final_amount == subtotal - discount_amount
        order_id == FreshId(orders, OrderIds)
        db_order == [coupon_id |-> coupon_id,
                     total_amount |-> subtotal,
                     discount_amount |-> discount_amount,
                     final_amount |-> final_amount,
                     status |-> "pending"]
    IN  [Db EXCEPT !.orders = Put(orders, order_id, db_order),
                   !.details = AddDetails(details, order_id, order.details)]

\* create_order, raising on a coupon code that fails validation.
create_order_commits_rejects(order) ==
    IF ~IsNone(order.coupon_code) /\ ~create_order_validation(order).is_valid
    THEN <<>>
    ELSE IF create_order_validation(order).is_valid
    THEN << [create_order_session(order) EXCEPT
                !.coupons = increment_usage_count(coupons, create_order_validation(order).coupon_id)] >>
    ELSE << create_order_session(order) >>

\* create_order, the order committed before the used_count is raised.
create_order_commits_counts_late(order) ==
    IF create_order_validation(order).is_valid
    THEN << create_order_session(order),
            [create_order_session(order) EXCEPT
                !.coupons = increment_usage_count(coupons, create_order_validation(order).coupon_id)] >>
    ELSE << create_order_session(order) >>

create_order_commits(order) ==
    LET session == create_order_session(order)
        coupon_id == session.orders[FreshId(orders, OrderIds)].coupon_id
        counted == [session EXCEPT !.coupons = increment_usage_count(coupons, coupon_id)]
    IN  IF ~IsNone(coupon_id) /\ increment_commits(coupons, coupon_id)
        THEN <<counted, counted>>     \* the commit inside increment_usage_count, then db.commit()
        ELSE <<session>>

CreateOrder(order, fail) ==
    /\ DOMAIN orders # OrderIds
    /\ Cardinality(DOMAIN details) + Len(order.details) <= MaxDetails
    /\ Commit(create_order_commits(order), fail)
    /\ last' = Request("create_order", FreshId(orders, OrderIds), order.coupon_code,
                       IsNone(order.coupon_code) \/ create_order_validation(order).is_valid,
                       fail, None,
                       IF create_order_validation(order).is_valid
                       THEN coupons[Val(create_order_validation(order).coupon_id)].used_count
                       ELSE 0)
    /\ UNCHANGED now

\* ---------------------------------------------------- apply / remove / delete
\* The router serves these for an order that exists, in status pending or
\* confirmed (delete: any status).
Editable(order_id) ==
    /\ order_id \in DOMAIN orders
    /\ orders[order_id].status \in {"pending", "confirmed"}

apply_coupon_validation(order_id, coupon_code) ==
    validate_coupon(coupons, now, coupon_code, orders[order_id].total_amount)

\* apply_coupon_to_order, is_valid not looked at.
apply_coupon_commits_unchecked(order_id, coupon_code) ==
    LET order == orders[order_id]
        coupon_validation == apply_coupon_validation(order_id, coupon_code)
        released == IF ~IsNone(order.coupon_id)
                    THEN decrement_usage_count(coupons, order.coupon_id)
                    ELSE coupons
        applied == [order EXCEPT
                       !.coupon_id = coupon_validation.coupon_id,
                       !.discount_amount = coupon_validation.discount_amount,
                       !.final_amount = order.total_amount - coupon_validation.discount_amount]
        done == [Db EXCEPT !.coupons = increment_usage_count(released, coupon_validation.coupon_id),
                           !.orders = [orders EXCEPT ![order_id] = applied]]
    IN  (IF ~IsNone(order.coupon_id) /\ decrement_commits(coupons, order.coupon_id)
         THEN << [Db EXCEPT !.coupons = released] >>
         ELSE <<>>)
        \o <<done, done>>

\* apply_coupon_to_order, the coupon the order holds not released.
apply_coupon_commits_no_release(order_id, coupon_code) ==
    LET order == orders[order_id]
        coupon_validation == apply_coupon_validation(order_id, coupon_code)
        applied == [order EXCEPT
                       !.coupon_id = coupon_validation.coupon_id,
                       !.discount_amount = coupon_validation.discount_amount,
                       !.final_amount = order.total_amount - coupon_validation.discount_amount]
        done == [Db EXCEPT !.coupons = increment_usage_count(coupons, coupon_validation.coupon_id),
                           !.orders = [orders EXCEPT ![order_id] = applied]]
    IN  IF ~coupon_validation.is_valid THEN <<>>
        ELSE <<done, done>>

apply_coupon_commits(order_id, coupon_code) ==
    LET order == orders[order_id]
        coupon_validation == apply_coupon_validation(order_id, coupon_code)
        released == IF ~IsNone(order.coupon_id)
                    THEN decrement_usage_count(coupons, order.coupon_id)
                    ELSE coupons
        applied == [order EXCEPT
                       !.coupon_id = coupon_validation.coupon_id,
                       !.discount_amount = coupon_validation.discount_amount,
                       !.final_amount = order.total_amount - coupon_validation.discount_amount]
        done == [Db EXCEPT !.coupons = increment_usage_count(released, coupon_validation.coupon_id),
                           !.orders = [orders EXCEPT ![order_id] = applied]]
    IN  IF ~coupon_validation.is_valid THEN <<>>      \* raise ValueError
        ELSE (IF ~IsNone(order.coupon_id) /\ decrement_commits(coupons, order.coupon_id)
              THEN << [Db EXCEPT !.coupons = released] >>
              ELSE <<>>)
             \o <<done, done>>    \* the commit inside increment_usage_count, then db.commit()

ApplyCoupon(order_id, coupon_code, fail) ==
    /\ Editable(order_id)
    /\ Commit(apply_coupon_commits(order_id, coupon_code), fail)
    /\ last' = Request("apply_coupon", order_id, Some(coupon_code),
                       apply_coupon_validation(order_id, coupon_code).is_valid, fail,
                       orders[order_id].coupon_id,
                       IF apply_coupon_validation(order_id, coupon_code).is_valid
                       THEN coupons[Val(apply_coupon_validation(order_id, coupon_code).coupon_id)].used_count
                       ELSE 0)
    /\ UNCHANGED now

\* remove_coupon_from_order, the used_count left alone.
remove_coupon_commits_keeps_count(order_id) ==
    LET order == orders[order_id]
        removed == [order EXCEPT !.coupon_id = None,
                                 !.discount_amount = 0,
                                 !.final_amount = order.total_amount]
    IN  IF IsNone(order.coupon_id) THEN <<>>
        ELSE << [Db EXCEPT !.orders = [orders EXCEPT ![order_id] = removed]] >>

remove_coupon_commits(order_id) ==
    LET order == orders[order_id]
        released == decrement_usage_count(coupons, order.coupon_id)
        removed == [order EXCEPT !.coupon_id = None,
                                 !.discount_amount = 0,
                                 !.final_amount = order.total_amount]
    IN  IF IsNone(order.coupon_id) THEN <<>>
        ELSE (IF decrement_commits(coupons, order.coupon_id)
              THEN << [Db EXCEPT !.coupons = released] >>
              ELSE <<>>)
             \o << [Db EXCEPT !.coupons = released,
                              !.orders = [orders EXCEPT ![order_id] = removed]] >>

RemoveCoupon(order_id, fail) ==
    /\ Editable(order_id)
    /\ Commit(remove_coupon_commits(order_id), fail)
    /\ last' = [Request("remove_coupon", order_id, None, TRUE, fail,
                        orders[order_id].coupon_id, 0)
                   EXCEPT !.undo = IF /\ last.op = "apply_coupon" /\ last.ok
                                      /\ last.fail = 0 /\ last.order = order_id
                                   THEN Some([code |-> Val(last.code), held |-> last.held,
                                              used |-> last.used])
                                   ELSE None]
    /\ UNCHANGED now

\* db.delete(order): Order.details has cascade="all, delete-orphan".
\* delete_order, the used_count left alone.
delete_order_commits_keeps_count(order_id) ==
    << [coupons |-> coupons,
        orders |-> Drop(orders, {order_id}),
        details |-> Drop(details, DetailsOf(details, order_id))] >>

delete_order_commits(order_id) ==
    LET order == orders[order_id]
        released == IF ~IsNone(order.coupon_id)
                    THEN decrement_usage_count(coupons, order.coupon_id)
                    ELSE coupons
    IN  (IF ~IsNone(order.coupon_id) /\ decrement_commits(coupons, order.coupon_id)
         THEN << [Db EXCEPT !.coupons = released] >>
         ELSE <<>>)
        \o << [coupons |-> released,
               orders |-> Drop(orders, {order_id}),
               details |-> Drop(details, DetailsOf(details, order_id))] >>

DeleteOrder(order_id, fail) ==
    /\ order_id \in DOMAIN orders
    /\ Commit(delete_order_commits(order_id), fail)
    /\ last' = Request("delete_order", order_id, None, TRUE, fail,
                       orders[order_id].coupon_id, 0)
    /\ UNCHANGED now

\* OrderStatusUpdate.status values the validator lets through.
StatusInputs ==
    {"pending", "confirmed", "paid", "processing", "completed", "cancelled", "refunded"}

\* update_order_status giving the coupon's use back when the order is cancelled.
update_order_status_commits_releases(order_id, status) ==
    << [Db EXCEPT !.orders = [orders EXCEPT ![order_id].status = status],
                  !.coupons = IF status = "cancelled"
                              THEN decrement_usage_count(coupons, orders[order_id].coupon_id)
                              ELSE coupons] >>

\* order.status = status; db.commit(): nothing else is written.
update_order_status_commits(order_id, status) ==
    << [Db EXCEPT !.orders = [orders EXCEPT ![order_id].status = status]] >>

UpdateOrderStatus(order_id, status, fail) ==
    /\ order_id \in DOMAIN orders
    /\ status \in StatusInputs
    /\ Commit(update_order_status_commits(order_id, status), fail)
    /\ last' = Request("update_order_status", order_id, None, TRUE, fail,
                       orders[order_id].coupon_id, 0)
    /\ UNCHANGED now

\* ---------------------------------------------------------------- line items
\* _update_order_amounts, final_amount set to the subtotal.
update_order_amounts_drops_discount(os, db_rows, order_id) ==
    IF order_id \notin DOMAIN os THEN os
    ELSE LET subtotal == SumSet(db_rows, DetailsOf(db_rows, order_id))
         IN  [os EXCEPT ![order_id].total_amount = subtotal,
                        ![order_id].final_amount = subtotal]

\* db_rows: the Order_detail rows the SUM query reads.
_update_order_amounts(os, db_rows, order_id) ==
    IF order_id \notin DOMAIN os THEN os
    ELSE LET subtotal == SumSet(db_rows, DetailsOf(db_rows, order_id))
         IN  [os EXCEPT ![order_id].total_amount = subtotal,
                        ![order_id].final_amount = subtotal - os[order_id].discount_amount]

add_detail_commits(order_id, detail) ==
    LET session_rows == AddDetails(details, order_id, <<detail>>)
    IN  << [Db EXCEPT !.details = session_rows,
                      !.orders = _update_order_amounts(orders, Visible(details, session_rows), order_id)] >>

AddDetail(order_id, detail, fail) ==
    /\ Editable(order_id)
    /\ DOMAIN details # DetailIds
    /\ Commit(add_detail_commits(order_id, detail), fail)
    /\ last' = Request("add_detail", order_id, None, TRUE, fail, None, 0)
    /\ UNCHANGED now

update_detail_commits(detail_id, detail_update) ==
    LET detail == details[detail_id]
        set == [f \in DOMAIN detail |->
                   IF f \in DOMAIN detail_update THEN detail_update[f] ELSE detail[f]]
        updated == [set EXCEPT !.total_price = set.quantity * set.price_per_item]
        session_rows == [details EXCEPT ![detail_id] = updated]
    IN  << [Db EXCEPT !.details = session_rows,
                      !.orders = _update_order_amounts(orders, Visible(details, session_rows), detail.order_id)] >>

UpdateDetail(detail_id, detail_update, fail) ==
    /\ detail_id \in DOMAIN details
    /\ Editable(details[detail_id].order_id)
    /\ Commit(update_detail_commits(detail_id, detail_update), fail)
    /\ last' = Request("update_detail", details[detail_id].order_id, None, TRUE, fail, None, 0)
    /\ UNCHANGED now

delete_detail_commits(detail_id) ==
    LET order_id == details[detail_id].order_id
        session_rows == Drop(details, {detail_id})
    IN  << [Db EXCEPT !.details = session_rows,
                      !.orders = _update_order_amounts(orders, Visible(details, session_rows), order_id)] >>

DeleteDetail(detail_id, fail) ==
    /\ detail_id \in DOMAIN details
    /\ Editable(details[detail_id].order_id)
    /\ Commit(delete_detail_commits(detail_id), fail)
    /\ last' = Request("delete_detail", details[detail_id].order_id, None, TRUE, fail, None, 0)
    /\ UNCHANGED now

\* ------------------------------------------------------------------- clock
Tick ==
    /\ now < MaxTime
    /\ now' = now + 1
    /\ last' = Request("tick", 0, None, TRUE, 0, None, 0)
    /\ UNCHANGED <<coupons, orders, details, sessions, scheduling, booking, store>>

\* ------------------------------------------------------------ specifications
Init ==
    /\ coupons = InitialCoupons
    /\ orders = <<>>
    /\ details = <<>>
    /\ now = 0
    /\ last = Request("init", 0, None, TRUE, 0, None, 0)
    /\ sessions = [p \in Sessions |-> None]
    /\ schedules = <<>>
    /\ time_offs = <<>>
    /\ appointments = <<>>
    /\ business_hours = <<>>
    /\ closures = <<>>

OrderInputs == [coupon_code : {None} \cup {Some(c) : c \in Codes}, details : ItemLists]

\* The multi-step mutations of the order engine, the store failing at none
\* of their commits (fails = {0}) or at any one of them.
OrderRequests(fails) ==
    \/ \E order \in OrderInputs, fail \in fails : CreateOrder(order, fail)
    \/ \E order_id \in OrderIds, code \in Codes, fail \in fails : ApplyCoupon(order_id, code, fail)
    \/ \E order_id \in OrderIds, fail \in fails : RemoveCoupon(order_id, fail)
    \/ \E order_id \in OrderIds, fail \in fails : DeleteOrder(order_id, fail)

\* The single-commit requests, and the clock.
OtherRequests ==
    \/ \E coupon_id \in CouponIds, u \in UpdateInputs : UpdateCoupon(coupon_id, u, 0)
    \/ \E order_id \in OrderIds, detail \in ItemInputs : AddDetail(order_id, detail, 0)
    \/ \E detail_id \in DetailIds, u \in ItemUpdateInputs : UpdateDetail(detail_id, u, 0)
    \/ \E detail_id \in DetailIds : DeleteDetail(detail_id, 0)
    \/ Tick

\* Requests served one at a time, the store never failing.
Next == OrderRequests({0}) \/ OtherRequests

Spec == Init /\ [][Next]_vars

\* No handler calls db.commit() more than three times.
FailPoints == 0..3

\* The multi-step mutations, the store failing at any commit.
NextF == OrderRequests(FailPoints)

SpecF == Init /\ [][NextF]_vars

\* The order mutations and the status changes, the store never failing.
NextS ==
    \/ OrderRequests({0})
    \/ \E order_id \in OrderIds, status \in StatusInputs : UpdateOrderStatus(order_id, status, 0)

SpecS == Init /\ [][NextS]_vars

\* CouponUpdate payloads of the coupon admin: one field each.
ValidationUpdates ==
    { [discount_value |-> 20000],
      [discount_type |-> "percentage"],
      [max_discount_amount |-> Some(0)],
      [min_order_amount |-> Some(200)],
      [usage_limit |-> Some(1)],
      [is_active |-> FALSE],
      [start_at |-> Some(1)],
      [end_at |-> Some(0)] }

\* One line item per order, to count uses of the coupon.
SingleItemOrders == {o \in OrderInputs : Len(o.details) = 1}

InitV ==
    /\ coupons = <<>>
    /\ orders = <<>>
    /\ details = <<>>
    /\ now = 0
    /\ last = Request("init", 0, None, TRUE, 0, None, 0)
    /\ sessions = [p \in Sessions |-> None]
    /\ schedules = <<>>
    /\ time_offs = <<>>
    /\ appointments = <<>>
    /\ business_hours = <<>>
    /\ closures = <<>>

\* The coupon admin, orders that use the coupon, and validate requests.
NextV ==
    \/ \E coupon \in CouponInputs : CreateCoupon(coupon, 0)
    \/ \E coupon_id \in 1..MaxCoupons, u \in ValidationUpdates : UpdateCoupon(coupon_id, u, 0)
    \/ \E order \in SingleItemOrders : CreateOrder(order, 0)
    \/ \E code \in Codes, amount \in Amounts : Validate(code, amount)
    \/ Tick

SpecV == InitV /\ [][NextV]_vars

\* --------------------------------------------------------- available coupons
\* get_available_coupons admitting a coupon whose uses have reached its limit.
get_available_coupons_inclusive_limit(cs, t, order_amount) ==
    {i \in DOMAIN cs :
        /\ cs[i].is_active = TRUE
        /\ IsNone(cs[i].start_at) \/ Val(cs[i].start_at) <= t
        /\ IsNone(cs[i].end_at) \/ Val(cs[i].end_at) >= t
        /\ IsNone(cs[i].min_order_amount) \/ Val(cs[i].min_order_amount) <= order_amount
        /\ IsNone(cs[i].usage_limit) \/ cs[i].used_count <= Val(cs[i].usage_limit)}

\* The rows that the filter of get_available_coupons lets through at time t.
get_available_coupons(cs, t, order_amount) ==
    {i \in DOMAIN cs :
        /\ cs[i].is_active = TRUE
        /\ IsNone(cs[i].start_at) \/ Val(cs[i].start_at) <= t
        /\ IsNone(cs[i].end_at) \/ Val(cs[i].end_at) >= t
        /\ IsNone(cs[i].min_order_amount) \/ Val(cs[i].min_order_amount) <= order_amount
        /\ IsNone(cs[i].usage_limit) \/ cs[i].used_count < Val(cs[i].usage_limit)}

\* The number of rows that .offset(skip).limit(limit) returns out of n.
PageSize(n, skip, limit) ==
    IF n <= skip THEN 0 ELSE IF n - skip <= limit THEN n - skip ELSE limit

\* The page sizes of the route: the default, and a page of one row.
DefaultLimit == 100

Limits == {1, DefaultLimit}

Skips == {0, 1}

\* GET /coupons/available: the query has no ORDER BY, so a page is any
\* PageSize of the rows the filter lets through.
GetAvailableCoupons(order_amount, skip, limit) ==
    /\ order_amount >= 0 /\ skip >= 0 /\ limit \in 1..500
    /\ \E page \in SUBSET get_available_coupons(coupons, now, order_amount) :
          /\ Cardinality(page) =
                PageSize(Cardinality(get_available_coupons(coupons, now, order_amount)),
                         skip, limit)
          /\ last' = [Request("get_available_coupons", 0, None, TRUE, 0, None, 0)
                         EXCEPT !.result = Some([order_amount |-> order_amount,
                                                 skip |-> skip, limit |-> limit,
                                                 at |-> now, coupons |-> page])]
    /\ UNCHANGED <<pricing, scheduling, booking, store>>

\* The coupon admin, orders that use the coupon, and requests for the
\* available coupons.
NextG ==
    \/ \E coupon \in CouponInputs : CreateCoupon(coupon, 0)
    \/ \E coupon_id \in 1..MaxCoupons, u \in ValidationUpdates : UpdateCoupon(coupon_id, u, 0)
    \/ \E order \in SingleItemOrders : CreateOrder(order, 0)
    \/ \E amount \in Amounts, skip \in Skips, limit \in Limits :
          GetAvailableCoupons(amount, skip, limit)
    \/ Tick

SpecG == InitV /\ [][NextG]_vars

\* ------------------------------------------------- requests in service at once
\* create_order up to its db.flush(): the Session of request p has loaded the
\* coupon row (its used_count as committed then) and holds the validation.
BeginCreateOrder(p, order) ==
    /\ IsNone(sessions[p])
    /\ sessions' = [sessions EXCEPT ![p] =
           Some([order |-> order,
                 coupon_validation |-> create_order_validation(order),
                 used_count |-> IF create_order_validation(order).is_valid
                                THEN Some(coupons[Val(create_order_validation(order).coupon_id)].used_count)
                                ELSE None])]
    /\ UNCHANGED <<coupons, orders, details, now, last, scheduling, booking, store>>

\* The rest of create_order: increment_usage_count finds the coupon in the
\* Session's identity map, adds one to the used_count loaded there, and its
\* db.commit() writes the order, the line items and that used_count.
\* No row is locked and the UPDATE sets the value, not an increment.
FinishCreateOrder(p) ==
    /\ ~IsNone(sessions[p])
    /\ DOMAIN orders # OrderIds
    /\ Cardinality(DOMAIN details) + Len(Val(sessions[p]).order.details) <= MaxDetails
    /\ LET order == Val(sessions[p]).order
           coupon_validation == Val(sessions[p]).coupon_validation
           subtotal == SumSeq([i \in DOMAIN order.details |->
                          order.details[i].quantity * order.details[i].price_per_item])
           coupon_id == IF coupon_validation.is_valid
                        THEN coupon_validation.coupon_id ELSE None
           discount_amount == IF coupon_validation.is_valid
                              THEN coupon_validation.discount_amount ELSE 0
           order_id == FreshId(orders, OrderIds)
           db_order == [coupon_id |-> coupon_id,
                        total_amount |-> subtotal,
                        discount_amount |-> discount_amount,
                        final_amount |-> subtotal - discount_amount,
                        status |-> "pending"]
       IN  /\ orders' = Put(orders, order_id, db_order)
           /\ details' = AddDetails(details, order_id, order.details)
           /\ coupons' = IF ~IsNone(coupon_id) /\ increment_commits(coupons, coupon_id)
                         THEN [coupons EXCEPT ![Val(coupon_id)].used_count =
                                  Val(Val(sessions[p]).used_count) + 1]
                         ELSE coupons
           /\ last' = Request("create_order", order_id, order.coupon_code,
                              IsNone(order.coupon_code) \/ coupon_validation.is_valid,
                              0, None,
                              IF coupon_validation.is_valid
                              THEN Val(Val(sessions[p]).used_count) ELSE 0)
    /\ sessions' = [sessions EXCEPT ![p] = None]
    /\ UNCHANGED <<now, scheduling, booking, store>>

\* createOrder requests whose steps interleave.
NextC ==
    \/ \E p \in Sessions, order \in SingleItemOrders : BeginCreateOrder(p, order)
    \/ \E p \in Sessions : FinishCreateOrder(p)

SpecC == Init /\ [][NextC]_vars

\* ------------------------------------------------------- availability engine
\* Time is counted in minutes.  A datetime is [tz, wall]: wall is the reading
\* of its calendar fields, in minutes since Monday 00:00 of week 0, and tz is
\* None for a naive datetime or Some(utcoffset in minutes) for an aware one.
\* A date is a day number (0 is that Monday), a time is a minute of the day.
MinutesPerDay == 24 * 60

UTC_8 == 480

Stylists == {"s1", "s2"}

Naive(wall) == [tz |-> None, wall |-> wall]

Aware(offset, wall) == [tz |-> Some(offset), wall |-> wall]

\* datetime.combine(date, time): a naive datetime.
combine(d, t) == Naive(d * MinutesPerDay + t)

\* A naive datetime is taken to be UTC+8 wall clock; an aware one is moved to
\* the same instant in UTC+8.
ensure_utc8(dt) ==
    IF IsNone(dt.tz)
    THEN Aware(UTC_8, dt.wall)
    ELSE Aware(UTC_8, dt.wall + (UTC_8 - Val(dt.tz)))

\* datetime.weekday(): Monday is 0, Sunday is 6.
weekday(dt) == (dt.wall \div MinutesPerDay) % 7

\* datetime.time(): the time of day.
time_of(dt) == dt.wall % MinutesPerDay

\* strftime("%H:%M"), as the pair <<hours, minutes>>.
strftime_HM(dt) == <<time_of(dt) \div 60, time_of(dt) % 60>>

\* A DateTime column has no time zone: what is written to it, or bound to a
\* comparison with it, is the calendar reading, and the zone is dropped.
Stored(dt) == dt.wall

\* What a DateTime column gives back when a row is loaded: a naive datetime.
Loaded(wall) == Naive(wall)

\* Python's <= on datetimes raises TypeError when exactly one side is naive.
Comparable(a, b) == IsNone(a.tz) <=> IsNone(b.tz)

\* 0 = Sunday .. 6 = Saturday, from Python's weekday.
adjusted_day(day_of_week) == IF day_of_week = 6 THEN 0 ELSE day_of_week + 1

\* .first() of the rows of one stylist and one day: the row's id, or None.
get_stylist_schedule_by_day(ss, stylist_id, day_of_week) ==
    LET rows == {k \in DOMAIN ss : /\ ss[k].stylist_id = stylist_id
                                   /\ ss[k].day_of_week = day_of_week}
    IN  IF rows = {} THEN None ELSE Some(CHOOSE k \in rows : TRUE)

\* The schedule table after create_or_update_schedule.
create_or_update_schedule(ss, schedule_data) ==
    LET existing_schedule ==
            get_stylist_schedule_by_day(ss, schedule_data.stylist_id,
                                        schedule_data.day_of_week)
        schedule_id == CHOOSE k \in 1..(Cardinality(DOMAIN ss) + 1) : k \notin DOMAIN ss
    IN  IF ~IsNone(existing_schedule)
        THEN [ss EXCEPT ![Val(existing_schedule)].start_time = schedule_data.start_time,
                        ![Val(existing_schedule)].end_time = schedule_data.end_time]
        ELSE [k \in DOMAIN ss \cup {schedule_id} |->
                 IF k = schedule_id THEN schedule_data ELSE ss[k]]

\* has_conflict of check_schedule_conflicts: the day already has a row.
check_schedule_conflicts(ss, stylist_id, day_of_week) ==
    ~IsNone(get_stylist_schedule_by_day(ss, stylist_id, day_of_week))

\* StylistSchedulesBase: a day of the week, and an end after the start.
ScheduleCreateValid(s) ==
    /\ s.day_of_week \in 0..6
    /\ s.end_time > s.start_time

\* StylistSchedulesUpdate: the two times are compared only when both are sent.
ScheduleUpdateValid(u) ==
    ~IsNone(u.start_time) /\ ~IsNone(u.end_time)
        => Val(u.end_time) > Val(u.start_time)

\* The schedule table after update_schedule: the fields sent are set.
update_schedule(ss, schedule_id, u) ==
    [ss EXCEPT ![schedule_id] =
        [@ EXCEPT !.start_time = IF IsNone(u.start_time) THEN @ ELSE Val(u.start_time),
                  !.end_time = IF IsNone(u.end_time) THEN @ ELSE Val(u.end_time)]]

\* StylistTimeOffBase: the end is after the start.  (The start is also
\* compared with the wall clock, which raises for an aware datetime: requests
\* carry naive datetimes that lie ahead of the clock.)
TimeOffCreateValid(t) ==
    /\ IsNone(t.start_datetime.tz)
    /\ IsNone(t.end_datetime.tz)
    /\ t.end_datetime.wall > t.start_datetime.wall

\* The time-off table after create_time_off.
create_time_off(tos, time_off_data) ==
    LET time_off_id == Cardinality(DOMAIN tos) + 1
        row == [stylist_id     |-> time_off_data.stylist_id,
                start_datetime |-> Stored(ensure_utc8(time_off_data.start_datetime)),
                end_datetime   |-> Stored(ensure_utc8(time_off_data.end_datetime))]
    IN  [k \in DOMAIN tos \cup {time_off_id} |->
            IF k = time_off_id THEN row ELSE tos[k]]

\* The time-off rows of a stylist that touch the dates start_date..end_date.
get_stylist_time_offs(tos, stylist_id, start_date, end_date) ==
    LET start_datetime_filter == ensure_utc8(combine(start_date, 0))
        end_datetime_filter == ensure_utc8(combine(end_date, MinutesPerDay - 1))
    IN  {k \in DOMAIN tos :
            /\ tos[k].stylist_id = stylist_id
            /\ tos[k].end_datetime >= Stored(start_datetime_filter)
            /\ tos[k].start_datetime <= Stored(end_datetime_filter)}

\* is_stylist_available looking the schedule up under Python's own weekday.
is_stylist_available_native_weekday(ss, tos, stylist_id, check_datetime) ==
    LET utc8 == ensure_utc8(check_datetime)
        offs == {k \in DOMAIN tos :
                    /\ tos[k].stylist_id = stylist_id
                    /\ tos[k].start_datetime <= Stored(utc8)
                    /\ tos[k].end_datetime >= Stored(utc8)}
        schedule == get_stylist_schedule_by_day(ss, stylist_id, weekday(utc8))
        current_time == time_of(utc8)
    IN  IF offs # {} THEN FALSE
        ELSE IF IsNone(schedule) THEN FALSE
        ELSE /\ ss[Val(schedule)].start_time <= current_time
             /\ current_time <= ss[Val(schedule)].end_time

is_stylist_available(ss, tos, stylist_id, check_datetime) ==
    LET utc8 == ensure_utc8(check_datetime)
        offs == {k \in DOMAIN tos :
                    /\ tos[k].stylist_id = stylist_id
                    /\ tos[k].start_datetime <= Stored(utc8)
                    /\ tos[k].end_datetime >= Stored(utc8)}
        schedule == get_stylist_schedule_by_day(ss, stylist_id,
                                                adjusted_day(weekday(utc8)))
        current_time == time_of(utc8)
    IN  IF offs # {} THEN FALSE
        ELSE IF IsNone(schedule) THEN FALSE
        ELSE /\ ss[Val(schedule)].start_time <= current_time
             /\ current_time <= ss[Val(schedule)].end_time

\* The loop stopping before a slot that ends exactly at end_time.
RECURSIVE available_slots_from_strict(_, _, _)
available_slots_from_strict(current_time, end_time, slot_duration) ==
    IF current_time.wall + slot_duration < end_time.wall
    THEN LET slot_end == Aware(UTC_8, current_time.wall + slot_duration)
         IN  <<[start_time |-> strftime_HM(current_time),
                end_time   |-> strftime_HM(slot_end),
                start_date |-> current_time,
                end_date   |-> slot_end]>>
             \o available_slots_from_strict(slot_end, end_time, slot_duration)
    ELSE <<>>

\* The loop of get_stylist_available_slots from current_time on, with no
\* time-off row to compare with.
RECURSIVE available_slots_from(_, _, _)
available_slots_from(current_time, end_time, slot_duration) ==
    IF current_time.wall + slot_duration <= end_time.wall
    THEN LET slot_end == Aware(UTC_8, current_time.wall + slot_duration)
         IN  <<[start_time |-> strftime_HM(current_time),
                end_time   |-> strftime_HM(slot_end),
                start_date |-> current_time,
                end_date   |-> slot_end]>>
             \o available_slots_from(slot_end, end_time, slot_duration)
    ELSE <<>>

\* get_stylist_available_slots: [raised, slots].  A time-off row is loaded as
\* a naive datetime and the slot bounds are aware, so the first comparison of
\* is_blocked raises TypeError; with no row, or no slot to examine, nothing
\* is compared.
get_stylist_available_slots(ss, tos, stylist_id, target_date, slot_duration) ==
    LET schedule == get_stylist_schedule_by_day(ss, stylist_id,
                                                adjusted_day(target_date % 7))
        offs == get_stylist_time_offs(tos, stylist_id, target_date, target_date)
        current_time == ensure_utc8(combine(target_date, ss[Val(schedule)].start_time))
        end_time == ensure_utc8(combine(target_date, ss[Val(schedule)].end_time))
        compared == /\ offs # {}
                    /\ current_time.wall + slot_duration <= end_time.wall
    IN  IF IsNone(schedule) THEN [raised |-> FALSE, slots |-> <<>>]
        ELSE IF compared /\ \E k \in offs :
                    ~Comparable(Loaded(tos[k].start_datetime), current_time)
        THEN [raised |-> TRUE, slots |-> <<>>]
        ELSE [raised |-> FALSE,
              slots |-> available_slots_from(current_time, end_time, slot_duration)]

\* ------------------------------------------------------- availability requests
\* The requests leave the pricing tables alone.
Scheduling(op, ok, result) ==
    /\ last' = [Request(op, 0, None, ok, 0, None, 0) EXCEPT !.result = Some(result)]
    /\ UNCHANGED <<pricing, booking, store>>

\* POST /stylists/{stylist_id}: refused when the day already has a row.
CreateStylistSchedule(schedule_data) ==
    /\ ScheduleCreateValid(schedule_data)
    /\ LET refused == check_schedule_conflicts(schedules, schedule_data.stylist_id,
                                               schedule_data.day_of_week)
       IN  /\ schedules' = IF refused THEN schedules
                           ELSE create_or_update_schedule(schedules, schedule_data)
           /\ Scheduling("create_stylist_schedule", ~refused, schedule_data)
    /\ UNCHANGED time_offs

\* PATCH /{schedule_id}
UpdateStylistSchedule(schedule_id, schedule_update) ==
    /\ schedule_id \in DOMAIN schedules
    /\ ScheduleUpdateValid(schedule_update)
    /\ schedules' = update_schedule(schedules, schedule_id, schedule_update)
    /\ Scheduling("update_stylist_schedule", TRUE, schedule_update)
    /\ UNCHANGED time_offs

\* POST /time-off
CreateStylistTimeOff(time_off_data) ==
    /\ Cardinality(DOMAIN time_offs) < MaxTimeOffs
    /\ TimeOffCreateValid(time_off_data)
    /\ time_offs' = create_time_off(time_offs, time_off_data)
    /\ Scheduling("create_stylist_time_off", TRUE, time_off_data)
    /\ UNCHANGED schedules

\* is_stylist_available(stylist_id, check_datetime)
IsStylistAvailable(stylist_id, check_datetime) ==
    /\ Scheduling("is_stylist_available", TRUE,
                  [stylist_id     |-> stylist_id,
                   check_datetime |-> check_datetime,
                   available      |-> is_stylist_available(schedules, time_offs,
                                                           stylist_id, check_datetime)])
    /\ UNCHANGED scheduling

\* GET /stylists/{stylist_id}/available
GetStylistAvailability(stylist_id, target_date, slot_duration) ==
    /\ slot_duration \in 15..480
    /\ LET got == get_stylist_available_slots(schedules, time_offs, stylist_id,
                                              target_date, slot_duration)
       IN  Scheduling("get_stylist_available_slots", ~got.raised,
                      [stylist_id    |-> stylist_id,
                       target_date   |-> target_date,
                       slot_duration |-> slot_duration,
                       slots         |-> got.slots])
    /\ UNCHANGED scheduling

\* Working hours sent: Monday 09:00-17:00 and Sunday 09:00-11:00 for one
\* stylist, Monday 09:00-11:00 for the other.
ScheduleInputs ==
    { [stylist_id |-> "s1", day_of_week |-> 1, start_time |-> 540, end_time |-> 1020],
      [stylist_id |-> "s1", day_of_week |-> 0, start_time |-> 540, end_time |-> 660],
      [stylist_id |-> "s2", day_of_week |-> 1, start_time |-> 540, end_time |-> 660] }

\* Changes of working hours sent: a later start, an earlier end, both.
ScheduleUpdates ==
    { [start_time |-> Some(600), end_time |-> None],
      [start_time |-> None, end_time |-> Some(480)],
      [start_time |-> Some(540), end_time |-> Some(1020)] }

\* Leave asked for: Monday 12:00-13:00 by either stylist, Sunday 10:00-10:30.
TimeOffInputs ==
    { [stylist_id |-> "s1", start_datetime |-> Naive(720), end_datetime |-> Naive(780)],
      [stylist_id |-> "s2", start_datetime |-> Naive(720), end_datetime |-> Naive(780)],
      [stylist_id |-> "s1", start_datetime |-> Naive(9240), end_datetime |-> Naive(9270)] }

\* Instants asked about: Monday 08:59, 09:00, 12:00, 13:00, 13:01, 17:00,
\* 17:01 and Sunday 10:30, 11:00, 11:01 as naive datetimes; Sunday 03:00 UTC
\* (Sunday 11:00 in UTC+8), Sunday 17:00 UTC-8 (Monday 09:00 in UTC+8) and
\* Sunday 16:01 UTC (Monday 00:01 in UTC+8) as aware ones.
CheckInstants ==
    {Naive(w) : w \in {539, 540, 720, 780, 781, 1020, 1021, 9270, 9300, 9301}}
        \cup {Aware(0, 8820), Aware(-480, 9660), Aware(0, 9601)}

\* Dates asked about: a Monday, a Tuesday, a Sunday.
TargetDates == {0, 1, 6}

\* Slot lengths asked for, in minutes.
SlotDurations == {45, 60, 480}

NextA ==
    \/ \E s \in ScheduleInputs : CreateStylistSchedule(s)
    \/ \E k \in DOMAIN schedules, u \in ScheduleUpdates : UpdateStylistSchedule(k, u)
    \/ \E t \in TimeOffInputs : CreateStylistTimeOff(t)
    \/ \E s \in Stylists, dt \in CheckInstants : IsStylistAvailable(s, dt)
    \/ \E s \in Stylists, d \in TargetDates, m \in SlotDurations :
          GetStylistAvailability(s, d, m)

SpecA == Init /\ [][NextA]_vars

\* --------------------------------------- schedule requests in service at once
\* The schedule table after delete_schedule.
delete_schedule(ss, schedule_id) ==
    [k \in DOMAIN ss \ {schedule_id} |-> ss[k]]

\* What a schedule request changes besides the schedule table.
ScheduleStep == <<coupons, orders, details, now, time_offs, booking, store>>

\* create_stylist_schedule up to the answer of check_schedule_conflicts: 409
\* when the day has a row, else the request goes on.
BeginCreateStylistSchedule(p, schedule_data) ==
    /\ IsNone(sessions[p])
    /\ ScheduleCreateValid(schedule_data)
    /\ LET refused == check_schedule_conflicts(schedules, schedule_data.stylist_id,
                                               schedule_data.day_of_week)
       IN  /\ sessions' = [sessions EXCEPT ![p] =
                  IF refused THEN None
                  ELSE Some([schedule_data |-> schedule_data, pc |-> "checked",
                             existing_schedule |-> None])]
           /\ last' = [Request("check_schedule_conflicts", 0, None, ~refused, 0, None, 0)
                          EXCEPT !.result = Some(schedule_data)]
    /\ UNCHANGED <<schedules, ScheduleStep>>

\* create_or_update_schedule up to the answer of get_stylist_schedule_by_day.
ReadExistingSchedule(p) ==
    /\ ~IsNone(sessions[p])
    /\ Val(sessions[p]).pc = "checked"
    /\ LET schedule_data == Val(sessions[p]).schedule_data
       IN  sessions' = [sessions EXCEPT ![p] =
               Some([schedule_data |-> schedule_data, pc |-> "read",
                     existing_schedule |->
                         get_stylist_schedule_by_day(schedules, schedule_data.stylist_id,
                                                     schedule_data.day_of_week)])]
    /\ UNCHANGED <<schedules, last, ScheduleStep>>

\* The rest of create_or_update_schedule: the row found is given the new
\* times (nothing is written if it is gone by now), or a new row is added,
\* and db.commit() writes it.  No constraint of the table refuses a second
\* row of the same stylist and day.
CommitSchedule(p) ==
    /\ ~IsNone(sessions[p])
    /\ Val(sessions[p]).pc = "read"
    /\ LET schedule_data == Val(sessions[p]).schedule_data
           existing_schedule == Val(sessions[p]).existing_schedule
           schedule_id == CHOOSE k \in 1..(Cardinality(DOMAIN schedules) + 1) :
                              k \notin DOMAIN schedules
           written == IsNone(existing_schedule)
                         \/ Val(existing_schedule) \in DOMAIN schedules
       IN  /\ IsNone(existing_schedule) => Cardinality(DOMAIN schedules) < MaxSchedules
           /\ schedules' =
                 IF ~IsNone(existing_schedule)
                 THEN IF written
                      THEN [schedules EXCEPT
                              ![Val(existing_schedule)].start_time = schedule_data.start_time,
                              ![Val(existing_schedule)].end_time = schedule_data.end_time]
                      ELSE schedules
                 ELSE [k \in DOMAIN schedules \cup {schedule_id} |->
                          IF k = schedule_id THEN schedule_data ELSE schedules[k]]
           /\ last' = [Request("create_stylist_schedule", 0, None, written, 0, None, 0)
                          EXCEPT !.result = Some(schedule_data)]
    /\ sessions' = [sessions EXCEPT ![p] = None]
    /\ UNCHANGED ScheduleStep

\* DELETE /stylists/{stylist_id}/schedules/{schedule_id}
DeleteStylistSchedule(schedule_id) ==
    /\ schedule_id \in DOMAIN schedules
    /\ schedules' = delete_schedule(schedules, schedule_id)
    /\ Scheduling("delete_stylist_schedule", TRUE, schedule_id)
    /\ UNCHANGED time_offs

\* Schedule requests whose steps interleave.
NextD ==
    \/ \E p \in Sessions, s \in ScheduleInputs : BeginCreateStylistSchedule(p, s)
    \/ \E p \in Sessions : ReadExistingSchedule(p)
    \/ \E p \in Sessions : CommitSchedule(p)
    \/ \E k \in DOMAIN schedules, u \in ScheduleUpdates : UpdateStylistSchedule(k, u)
    \/ \E k \in DOMAIN schedules : DeleteStylistSchedule(k)

SpecD == Init /\ [][NextD]_vars

\* ---------------------------------------------------------------- appointments
\* An appointment row is [stylist_id, start_time, end_time, status]; the two
\* times are naive datetimes, kept as their minute count.
ActiveStatuses == {"confirmed", "in_progress"}

\* check_time_conflict with touching intervals counted as overlapping.
check_time_conflict_closed(as, stylist_id, start_time, end_time, exclude_appointment_id) ==
    \E k \in DOMAIN as :
        /\ as[k].stylist_id = stylist_id
        /\ as[k].status \in ActiveStatuses
        /\ as[k].start_time <= end_time
        /\ as[k].end_time >= start_time
        /\ IsNone(exclude_appointment_id) \/ k # Val(exclude_appointment_id)

\* query.first() is not None
check_time_conflict(as, stylist_id, start_time, end_time, exclude_appointment_id) ==
    \E k \in DOMAIN as :
        /\ as[k].stylist_id = stylist_id
        /\ as[k].status \in ActiveStatuses
        /\ as[k].start_time < end_time
        /\ as[k].end_time > start_time
        /\ IsNone(exclude_appointment_id) \/ k # Val(exclude_appointment_id)

\* AppointmentBase: the end is after the start; status is any string.
AppointmentCreateValid(a) == a.end_time > a.start_time

\* AppointmentUpdate: the two times are compared only when both are sent.
AppointmentUpdateValid(u) ==
    ~IsNone(u.start_time) /\ ~IsNone(u.end_time)
        => Val(u.end_time) > Val(u.start_time)

\* AppointmentStatusUpdate: one of the six statuses.
AppointmentStatuses ==
    {"pending", "confirmed", "in_progress", "completed", "cancelled", "no_show"}

\* The appointment table after create_appointment.
create_appointment(as, appointment) ==
    LET appointment_id == CHOOSE k \in 1..(Cardinality(DOMAIN as) + 1) : k \notin DOMAIN as
    IN  [k \in DOMAIN as \cup {appointment_id} |->
            IF k = appointment_id THEN appointment ELSE as[k]]

\* The appointment table after update_appointment: the fields sent are set.
update_appointment(as, appointment_id, u) ==
    [as EXCEPT ![appointment_id] =
        [@ EXCEPT !.start_time = IF IsNone(u.start_time) THEN @ ELSE Val(u.start_time),
                  !.end_time = IF IsNone(u.end_time) THEN @ ELSE Val(u.end_time),
                  !.status = IF IsNone(u.status) THEN @ ELSE Val(u.status)]]

\* The appointment table after delete_appointment.
delete_appointment(as, appointment_id) ==
    [k \in DOMAIN as \ {appointment_id} |-> as[k]]

\* The requests leave every other table alone.
Booking(op, ok, result) ==
    /\ last' = [Request(op, 0, None, ok, 0, None, 0) EXCEPT !.result = Some(result)]
    /\ UNCHANGED <<pricing, scheduling, store>>

\* POST /appointments: 409 when the time is taken.
CreateAppointment(appointment) ==
    /\ Cardinality(DOMAIN appointments) < MaxAppointments
    /\ AppointmentCreateValid(appointment)
    /\ LET conflict == check_time_conflict(appointments, appointment.stylist_id,
                                           appointment.start_time,
                                           appointment.end_time, None)
       IN  /\ appointments' = IF conflict THEN appointments
                              ELSE create_appointment(appointments, appointment)
           /\ Booking("create_appointment", ~conflict, appointment)

\* PATCH /appointments/{appointment_id}: the conflict check runs when a time
\* is sent, against the row's stylist and without the row itself.
UpdateAppointment(appointment_id, appointment_update) ==
    /\ appointment_id \in DOMAIN appointments
    /\ AppointmentUpdateValid(appointment_update)
    /\ LET appointment == appointments[appointment_id]
           start_time == IF IsNone(appointment_update.start_time)
                         THEN appointment.start_time
                         ELSE Val(appointment_update.start_time)
           end_time == IF IsNone(appointment_update.end_time)
                       THEN appointment.end_time
                       ELSE Val(appointment_update.end_time)
           conflict ==
               /\ ~IsNone(appointment_update.start_time)
                    \/ ~IsNone(appointment_update.end_time)
               /\ check_time_conflict(appointments, appointment.stylist_id,
                                      start_time, end_time, Some(appointment_id))
       IN  /\ appointments' = IF conflict THEN appointments
                              ELSE update_appointment(appointments, appointment_id,
                                                      appointment_update)
           /\ Booking("update_appointment", ~conflict, appointment_update)

\* PATCH /appointments/{appointment_id}/status
UpdateAppointmentStatus(appointment_id, status) ==
    /\ appointment_id \in DOMAIN appointments
    /\ status \in AppointmentStatuses
    /\ appointments' = update_appointment(appointments, appointment_id,
                          [start_time |-> None, end_time |-> None,
                           status |-> Some(status)])
    /\ Booking("update_appointment_status", TRUE, status)

\* DELETE /appointments/{appointment_id}
DeleteAppointment(appointment_id) ==
    /\ appointment_id \in DOMAIN appointments
    /\ appointments' = delete_appointment(appointments, appointment_id)
    /\ Booking("delete_appointment", TRUE, appointment_id)

\* check_time_conflict(stylist_id, start_time, end_time, exclude_appointment_id)
CheckTimeConflict(stylist_id, start_time, end_time, exclude_appointment_id) ==
    /\ Booking("check_time_conflict", TRUE,
               [stylist_id |-> stylist_id,
                start_time |-> start_time,
                end_time   |-> end_time,
                exclude_appointment_id |-> exclude_appointment_id,
                conflict   |-> check_time_conflict(appointments, stylist_id,
                                                   start_time, end_time,
                                                   exclude_appointment_id)])
    /\ UNCHANGED appointments

\* Times asked for: 10:00-11:00, 10:30-11:30, 11:00-12:00.
Intervals == {<<600, 660>>, <<630, 690>>, <<660, 720>>}

\* Appointments sent: either stylist, any of the times, pending or confirmed.
AppointmentInputs ==
    { [stylist_id |-> s, start_time |-> i[1], end_time |-> i[2], status |-> st] :
        s \in Stylists, i \in Intervals, st \in {"pending", "confirmed"} }

\* Changes of time sent: a new start and end, or a new end alone.
AppointmentUpdates ==
    { [start_time |-> Some(630), end_time |-> Some(690), status |-> None],
      [start_time |-> None, end_time |-> Some(720), status |-> None] }

NextB ==
    \/ \E a \in AppointmentInputs : CreateAppointment(a)
    \/ \E k \in DOMAIN appointments, u \in AppointmentUpdates : UpdateAppointment(k, u)
    \/ \E k \in DOMAIN appointments, st \in AppointmentStatuses :
          UpdateAppointmentStatus(k, st)
    \/ \E k \in DOMAIN appointments : DeleteAppointment(k)
    \/ \E s \in Stylists, i \in Intervals,
          x \in {None} \cup {Some(k) : k \in DOMAIN appointments} :
          CheckTimeConflict(s, i[1], i[2], x)

SpecB == Init /\ [][NextB]_vars

\* ------------------------------------------------------------- opening hours
\* A business-hours row is [day_of_week, open_time, close_time, is_closed],
\* the two times None or Some(minute of the day); a closure row is
\* [start_datetime, end_datetime], naive datetimes kept as their minute count.
\* A field of a request is Unset when the request does not carry it and
\* Sent(v) when it does.
Unset == None

Sent(v) == Some(v)

\* The value a request gives a field, or the field's default.
Given(field, default) == IF field = Unset THEN default ELSE Val(field)

\* is_closed = true in the request: validate_closed_day empties both times.
ClosedDay(h) == Given(h.is_closed, FALSE) = TRUE

\* StoreBusinessHoursCreate: a day of the week; open_time, when sent, is not
\* null (is_closed is validated later and reads as false here); close_time,
\* when sent with an open_time, is after it.
BusinessHoursCreateValid(h) ==
    /\ h.day_of_week \in 0..6
    /\ h.open_time # Unset => ~IsNone(Val(h.open_time))
    /\ LET open_time == Given(h.open_time, None)
           close_time == Given(h.close_time, None)
       IN  h.close_time # Unset /\ ~IsNone(open_time) /\ ~IsNone(close_time)
               => Val(close_time) > Val(open_time)

\* hours_data.dict(): every field, with the times emptied on a closed day.
business_hours_dict(h) ==
    [day_of_week |-> h.day_of_week,
     open_time   |-> IF ClosedDay(h) THEN None ELSE Given(h.open_time, None),
     close_time  |-> IF ClosedDay(h) THEN None ELSE Given(h.close_time, None),
     is_closed   |-> Given(h.is_closed, FALSE)]

\* .first() of the rows of one day: the row's id, or None.
get_business_hours_by_day(bh, day_of_week) ==
    LET rows == {k \in DOMAIN bh : bh[k].day_of_week = day_of_week}
    IN  IF rows = {} THEN None ELSE Some(CHOOSE k \in rows : TRUE)

\* The business-hours table after create_or_update_business_hours.
create_or_update_business_hours(bh, day_of_week, hours_data) ==
    LET existing_hours == get_business_hours_by_day(bh, day_of_week)
        hour_id == CHOOSE k \in 1..(Cardinality(DOMAIN bh) + 1) : k \notin DOMAIN bh
    IN  IF ~IsNone(existing_hours)
        THEN [bh EXCEPT ![Val(existing_hours)] = business_hours_dict(hours_data)]
        ELSE [k \in DOMAIN bh \cup {hour_id} |->
                 IF k = hour_id THEN business_hours_dict(hours_data) ELSE bh[k]]

\* StoreBusinessHoursUpdate: close_time, when sent with an open_time, is
\* after it.
BusinessHoursUpdateValid(u) ==
    LET open_time == Given(u.open_time, None)
        close_time == Given(u.close_time, None)
    IN  u.close_time # Unset /\ ~IsNone(open_time) /\ ~IsNone(close_time)
            => Val(close_time) > Val(open_time)

\* The business-hours table after update_business_hours: dict(exclude_unset)
\* holds the fields the request carried, a time among them emptied when the
\* request closes the day; a field the request did not carry keeps its value.
update_business_hours(bh, hour_id, u) ==
    [bh EXCEPT ![hour_id] =
        [@ EXCEPT !.open_time = IF u.open_time = Unset THEN @
                                ELSE IF ClosedDay(u) THEN None ELSE Val(u.open_time),
                  !.close_time = IF u.close_time = Unset THEN @
                                 ELSE IF ClosedDay(u) THEN None ELSE Val(u.close_time),
                  !.is_closed = IF u.is_closed = Unset THEN @ ELSE Val(u.is_closed)]]

\* StoreClosuresBase: the end is after the start.  (The start is also
\* compared with the wall clock, which raises for an aware datetime: requests
\* carry naive datetimes that lie ahead of the clock.)
ClosureCreateValid(c) ==
    /\ IsNone(c.start_datetime.tz)
    /\ IsNone(c.end_datetime.tz)
    /\ c.end_datetime.wall > c.start_datetime.wall

\* The closure table after create_closure.
create_closure(cl, closure) ==
    LET closure_id == Cardinality(DOMAIN cl) + 1
        row == [start_datetime |-> Stored(closure.start_datetime),
                end_datetime   |-> Stored(closure.end_datetime)]
    IN  [k \in DOMAIN cl \cup {closure_id} |-> IF k = closure_id THEN row ELSE cl[k]]

\* The closures in force at check_datetime, both ends included.
get_active_closures(cl, check_datetime) ==
    {k \in DOMAIN cl : /\ cl[k].start_datetime <= Stored(check_datetime)
                       /\ cl[k].end_datetime >= Stored(check_datetime)}

\* is_store_open: [raised, open].  open_time <= current_time <= close_time
\* raises TypeError when the time it gets to compare is None.
is_store_open(bh, cl, check_datetime) ==
    LET hours ==
            get_business_hours_by_day(bh, adjusted_day(weekday(check_datetime)))
        row == bh[Val(hours)]
        current_time == time_of(check_datetime)
        answer(open) == [raised |-> FALSE, open |-> open]
        TypeError == [raised |-> TRUE, open |-> FALSE]
    IN  IF get_active_closures(cl, check_datetime) # {} THEN answer(FALSE)
        ELSE IF IsNone(hours) THEN answer(FALSE)
        ELSE IF row.is_closed THEN answer(FALSE)
        ELSE IF IsNone(row.open_time) THEN TypeError
        ELSE IF ~(Val(row.open_time) <= current_time) THEN answer(FALSE)
        ELSE IF IsNone(row.close_time) THEN TypeError
        ELSE answer(current_time <= Val(row.close_time))

\* The loop of get_next_open_time from day i on: the opening time of the
\* first day that has one outside every closure and after from_datetime.
RECURSIVE next_open_from(_, _, _, _)
next_open_from(bh, cl, from_datetime, i) ==
    IF i >= 7 THEN None
    ELSE LET check_date == (from_datetime.wall \div MinutesPerDay) + i
             hours == get_business_hours_by_day(bh, adjusted_day(check_date % 7))
             row == bh[Val(hours)]
             next_open == combine(check_date, Val(row.open_time))
         IN  IF /\ ~IsNone(hours)
                /\ ~row.is_closed
                /\ ~IsNone(row.open_time)
                /\ get_active_closures(cl, next_open) = {}
                /\ next_open.wall > from_datetime.wall
             THEN Some(next_open)
             ELSE next_open_from(bh, cl, from_datetime, i + 1)

get_next_open_time(bh, cl, from_datetime) == next_open_from(bh, cl, from_datetime, 0)

\* The requests leave every other table alone.
Store(op, ok, result) ==
    /\ last' = [Request(op, 0, None, ok, 0, None, 0) EXCEPT !.result = Some(result)]
    /\ UNCHANGED <<pricing, scheduling, booking>>

\* POST /business-hours
CreateOrUpdateBusinessHours(hours_data) ==
    /\ BusinessHoursCreateValid(hours_data)
    /\ business_hours' = create_or_update_business_hours(business_hours,
                             hours_data.day_of_week, hours_data)
    /\ Store("create_or_update_business_hours", TRUE, hours_data)
    /\ UNCHANGED closures

\* PATCH /business-hours/{day_of_week}: 404 when the day has no row.
UpdateBusinessHoursByDay(day_of_week, hours_update) ==
    /\ day_of_week \in 0..6
    /\ BusinessHoursUpdateValid(hours_update)
    /\ LET hours == get_business_hours_by_day(business_hours, day_of_week)
       IN  /\ business_hours' = IF IsNone(hours) THEN business_hours
                                ELSE update_business_hours(business_hours, Val(hours),
                                                           hours_update)
           /\ Store("update_business_hours", ~IsNone(hours), hours_update)
    /\ UNCHANGED closures

\* POST /closures
CreateStoreClosure(closure_data) ==
    /\ Cardinality(DOMAIN closures) < MaxClosures
    /\ ClosureCreateValid(closure_data)
    /\ closures' = create_closure(closures, closure_data)
    /\ Store("create_closure", TRUE, closure_data)
    /\ UNCHANGED business_hours

\* GET /is-open
CheckStoreIsOpen(check_time) ==
    /\ LET got == is_store_open(business_hours, closures, check_time)
       IN  Store("is_store_open", ~got.raised,
                 [check_datetime |-> check_time, open |-> got.open])
    /\ UNCHANGED store

\* GET /next-open
GetNextOpenTime(from_time) ==
    /\ Store("get_next_open_time", TRUE,
             [from_datetime |-> from_time,
              next_open |-> get_next_open_time(business_hours, closures, from_time)])
    /\ UNCHANGED store

\* Opening hours sent: Monday 09:00-17:00, Monday with no field but the day,
\* Monday closed with times in the request, Tuesday 09:00-17:00.
BusinessHoursInputs ==
    { [day_of_week |-> 1, open_time |-> Sent(Some(540)),
       close_time |-> Sent(Some(1020)), is_closed |-> Unset],
      [day_of_week |-> 1, open_time |-> Unset, close_time |-> Unset, is_closed |-> Unset],
      [day_of_week |-> 1, open_time |-> Sent(Some(540)),
       close_time |-> Sent(Some(1020)), is_closed |-> Sent(TRUE)],
      [day_of_week |-> 2, open_time |-> Sent(Some(540)),
       close_time |-> Sent(Some(1020)), is_closed |-> Unset] }

\* Changes of opening hours sent: close the day, reopen it, a later opening.
BusinessHoursUpdates ==
    { [open_time |-> Unset, close_time |-> Unset, is_closed |-> Sent(TRUE)],
      [open_time |-> Unset, close_time |-> Unset, is_closed |-> Sent(FALSE)],
      [open_time |-> Sent(Some(600)), close_time |-> Unset, is_closed |-> Unset] }

\* Closures sent: Monday 08:00-10:00, Monday 12:00-13:00.
ClosureInputs ==
    { [start_datetime |-> Naive(480), end_datetime |-> Naive(600)],
      [start_datetime |-> Naive(720), end_datetime |-> Naive(780)] }

\* Instants asked about: Monday 08:59, 09:00, 10:00, 10:01, 12:30, 17:00,
\* 17:01, Tuesday 09:00, Wednesday 09:00.
StoreInstants ==
    {Naive(w) : w \in {539, 540, 600, 601, 750, 1020, 1021, 1980, 3420}}

NextO ==
    \/ \E h \in BusinessHoursInputs : CreateOrUpdateBusinessHours(h)
    \/ \E d \in {1, 2}, u \in BusinessHoursUpdates : UpdateBusinessHoursByDay(d, u)
    \/ \E c \in ClosureInputs : CreateStoreClosure(c)
    \/ \E t \in StoreInstants : CheckStoreIsOpen(t)
    \/ \E t \in StoreInstants : GetNextOpenTime(t)

SpecO == Init /\ [][NextO]_vars

\* ================================================================== claims
LineItemOps == {"add_detail", "update_detail", "delete_detail"}

\* C1: every stored order has final_amount = total_amount - discount_amount.
C1_FinalIsTotalMinusDiscount ==
    \A o \in DOMAIN orders :
        orders[o].final_amount = orders[o].total_amount - orders[o].discount_amount

\* A line item of an order that carries a discount has just been changed.
C1_Witness ==
    /\ last.op \in LineItemOps
    /\ last.order \in DOMAIN orders
    /\ orders[last.order].discount_amount > 0
    /\ orders[last.order].total_amount > orders[last.order].discount_amount

\* C2: every stored order has discount_amount <= total_amount.
C2_DiscountAtMostTotal ==
    \A o \in DOMAIN orders : orders[o].discount_amount <= orders[o].total_amount

\* C3: every coupon has used_count >= 0, and used_count <= usage_limit when
\* usage_limit is set.
C3_UsedCountWithinLimit ==
    \A c \in DOMAIN coupons :
        /\ coupons[c].used_count >= 0
        /\ (~IsNone(coupons[c].usage_limit) =>
               coupons[c].used_count <= Val(coupons[c].usage_limit))

\* What the request recorded in last' writes when every commit succeeds.
Completed ==
    CASE last'.op = "apply_coupon" ->
             {Landed(apply_coupon_commits(last'.order, Val(last'.code)), 0)}
      [] last'.op = "remove_coupon" ->
             {Landed(remove_coupon_commits(last'.order), 0)}
      [] last'.op = "delete_order" ->
             {Landed(delete_order_commits(last'.order), 0)}
      [] last'.op = "create_order" ->
             {Landed(create_order_commits(order), 0) :
                  order \in {x \in OrderInputs :
                                /\ x.coupon_code = last'.code
                                /\ Cardinality(DOMAIN details) + Len(x.details) <= MaxDetails}}
      [] OTHER -> {Db}

\* C4: a createOrder, applyCouponToOrder, removeCouponFromOrder or deleteOrder
\* that a store failure aborts leaves the database as it was before the
\* request, or as the completed request leaves it.
C4_AllOrNothing ==
    [][last'.fail # 0 => (Db' = Db \/ Db' \in Completed)]_vars

\* C5: after addLineItem, updateLineItem or deleteLineItem the order's
\* total_amount is the sum of total_price over the line items it then has,
\* final_amount is that total minus discount_amount, and discount_amount is
\* what it was.
C5_TotalIsSumOfItems ==
    [][(last'.op \in LineItemOps /\ last'.fail = 0) =>
          LET o == last'.order IN
          /\ orders'[o].total_amount = SumSet(details', DetailsOf(details', o))
          /\ orders'[o].final_amount = orders'[o].total_amount - orders'[o].discount_amount
          /\ orders'[o].discount_amount = orders[o].discount_amount]_vars

\* The coupon row a code names, in the table cs (the code must name one).
CouponOf(cs, code) == Val(get_coupon_by_code(cs, code))

\* The last request is a completed removeCouponFromOrder that followed at once
\* a completed applyCouponToOrder on the same order.
RemoveAfterApply ==
    /\ last.op = "remove_coupon" /\ last.fail = 0
    /\ ~IsNone(last.undo)

\* The order is back to no coupon and no discount.
Restored(o) ==
    /\ orders[o].final_amount = orders[o].total_amount
    /\ orders[o].discount_amount = 0
    /\ IsNone(orders[o].coupon_id)

C7_FailedApplyChangesNothing ==
    [][(/\ last'.op = "apply_coupon"
        /\ ~apply_coupon_validation(last'.order, Val(last'.code)).is_valid) =>
          /\ ~last'.ok
          /\ UNCHANGED <<coupons, orders, details>>]_vars

\* A code that fails validation was applied to an order that holds a coupon.
C7_Witness ==
    /\ last.op = "apply_coupon" /\ ~last.ok
    /\ last.order \in DOMAIN orders
    /\ ~IsNone(orders[last.order].coupon_id)
    /\ orders[last.order].discount_amount > 0

\* sum of quantity x price_per_item over the line items of an order
ItemsTotal(ds, o) ==
    SumSet([k \in DOMAIN ds |-> [total_price |-> ds[k].quantity * ds[k].price_per_item]],
           DetailsOf(ds, o))

\* C8: createOrder with a coupon code that fails validation creates the order
\* with no coupon, no discount and final_amount = total_amount = the sum of
\* quantity x price_per_item, and changes no coupon.
C8_InvalidCouponDropped ==
    [][(/\ last'.op = "create_order" /\ last'.fail = 0
        /\ ~IsNone(last'.code) /\ ~last'.ok) =>
          LET o == last'.order IN
          /\ o \notin DOMAIN orders /\ o \in DOMAIN orders'
          /\ IsNone(orders'[o].coupon_id)
          /\ orders'[o].discount_amount = 0
          /\ orders'[o].final_amount = orders'[o].total_amount
          /\ orders'[o].total_amount = ItemsTotal(details', o)
          /\ DetailsOf(details, o) = {}
          /\ coupons' = coupons]_vars

\* An order of positive total was created with a code that fails validation.
C8_Witness ==
    /\ last.op = "create_order" /\ ~IsNone(last.code) /\ ~last.ok
    /\ last.order \in DOMAIN orders
    /\ orders[last.order].total_amount > 0

\* C9: createOrder with a coupon code that validates stores the order with
\* that coupon and the validated discount and adds one to the coupon's
\* used_count; the order, its line items and the increment are committed
\* together or not at all, whichever commit the store fails at.
C9_ValidCouponCounted ==
    [][(last'.op = "create_order" /\ ~IsNone(last'.code) /\ last'.ok) =>
          LET o == last'.order
              b == CouponOf(coupons, Val(last'.code))
          IN  /\ (last'.fail = 0 => o \in DOMAIN orders')
              /\ o \notin DOMAIN orders
              /\ IF o \in DOMAIN orders'
                 THEN /\ orders'[o].coupon_id = Some(b)
                      /\ orders'[o].total_amount = ItemsTotal(details', o)
                      /\ orders'[o].discount_amount =
                            validate_coupon(coupons, now, Val(last'.code),
                                            orders'[o].total_amount).discount_amount
                      /\ orders'[o].final_amount =
                            orders'[o].total_amount - orders'[o].discount_amount
                      /\ coupons' = [coupons EXCEPT ![b].used_count = @ + 1]
                 ELSE Db' = Db]_vars

\* An order with two line items was created with a coupon that validates.
C9_Witness ==
    /\ last.op = "create_order" /\ ~IsNone(last.code) /\ last.ok /\ last.fail = 0
    /\ last.order \in DOMAIN orders
    /\ Cardinality(DetailsOf(details, last.order)) = 2
    /\ orders[last.order].discount_amount > 0
    /\ coupons[Val(orders[last.order].coupon_id)].used_count = last.used + 1

\* C10: a successful applyCouponToOrder on an order that holds another coupon
\* takes one from that coupon's used_count, adds one to the new coupon's, and
\* leaves the order with the new coupon and its validated discount on the
\* order's total_amount.
C10_SwapMovesOneUse ==
    [][(/\ last'.op = "apply_coupon" /\ last'.ok /\ last'.fail = 0
        /\ ~IsNone(orders[last'.order].coupon_id)
        /\ orders[last'.order].coupon_id # get_coupon_by_code(coupons, Val(last'.code))) =>
          LET o == last'.order
              a == Val(orders[o].coupon_id)
              b == CouponOf(coupons, Val(last'.code))
          IN  /\ coupons'[a].used_count = coupons[a].used_count - 1
              /\ coupons'[b].used_count = coupons[b].used_count + 1
              /\ \A c \in DOMAIN coupons \ {a, b} : coupons'[c] = coupons[c]
              /\ orders'[o].coupon_id = Some(b)
              /\ orders'[o].total_amount = orders[o].total_amount
              /\ orders'[o].discount_amount =
                    validate_coupon(coupons, now, Val(last'.code),
                                    orders[o].total_amount).discount_amount]_vars

\* A coupon was applied to an order that held another one.
C10_Witness ==
    /\ last.op = "apply_coupon" /\ last.ok /\ last.fail = 0
    /\ ~IsNone(last.held)
    /\ last.held # orders[last.order].coupon_id
    /\ orders[last.order].discount_amount > 0

\* C11: deleteOrder on an order that holds a coupon takes exactly one from that
\* coupon's used_count and removes the order and all its line items; on an
\* order without a coupon no coupon changes.  No other order or line item
\* is touched.
C11_DeleteReleasesCoupon ==
    [][(last'.op = "delete_order" /\ last'.fail = 0) =>
          LET o == last'.order IN
          /\ orders' = Drop(orders, {o})
          /\ details' = Drop(details, DetailsOf(details, o))
          /\ DetailsOf(details', o) = {}
          /\ IF IsNone(orders[o].coupon_id)
             THEN coupons' = coupons
             ELSE coupons' = [coupons EXCEPT ![Val(orders[o].coupon_id)].used_count = @ - 1]]_vars

\* An order that held a coupon was deleted while another order still holds it.
C11_Witness ==
    /\ last.op = "delete_order" /\ last.fail = 0
    /\ ~IsNone(last.held)
    /\ last.order \notin DOMAIN orders
    /\ coupons[Val(last.held)].used_count = 1
    /\ \E o \in DOMAIN orders : orders[o].coupon_id = last.held

\* C12: when an order that holds a coupon is cancelled (its status is set to
\* cancelled), that coupon's used_count goes down by one.
C12_CancelReleasesCoupon ==
    [][\A o \in DOMAIN orders \cap DOMAIN orders' :
          (/\ last'.op = "update_order_status" /\ last'.order = o /\ last'.fail = 0
           /\ orders[o].status # "cancelled" /\ orders'[o].status = "cancelled"
           /\ ~IsNone(orders[o].coupon_id)) =>
              coupons'[Val(orders[o].coupon_id)].used_count =
                  coupons[Val(orders[o].coupon_id)].used_count - 1]_vars

\* ------------------------------------------------ claims about validation
\* The last request is a validate; what it asked and what it returned.
Validated == last.op = "validate_coupon"

Asked == Val(last.result).amount

Returned == Val(last.result).result

\* The coupon row the validated code names (the code must name one).
Named == coupons[CouponOf(coupons, Val(last.code))]

\* The checks of validate in the order stated, each by what it tests, and
\* the error each reports.
CheckErrors ==
    << "not found", "disabled", "not yet active", "expired",
       "usage limit reached", "below minimum" >>

CheckFails(i) ==
    IF IsNone(get_coupon_by_code(coupons, Val(last.code))) THEN i = 1
    ELSE CASE i = 1 -> FALSE
           [] i = 2 -> ~Named.is_active
           [] i = 3 -> ~IsNone(Named.start_at) /\ Val(last.result).at < Val(Named.start_at)
           [] i = 4 -> ~IsNone(Named.end_at) /\ Val(last.result).at > Val(Named.end_at)
           [] i = 5 -> ~IsNone(Named.usage_limit) /\ Named.used_count >= Val(Named.usage_limit)
           [] i = 6 -> ~IsNone(Named.min_order_amount) /\ Asked < Val(Named.min_order_amount)

FailedChecks == {i \in DOMAIN CheckErrors : CheckFails(i)}

\* C13: validate reports the error of the earliest failing check, in the order
\* not found, disabled, not yet active, expired, usage limit reached, below
\* minimum; every failure has is_valid = false, discount_amount = 0 and
\* final_amount = order_amount; with no failing check the result is valid.
C13_EarliestFailureReported ==
    Validated =>
        IF FailedChecks = {}
        THEN Returned.is_valid
        ELSE /\ ~Returned.is_valid
             /\ \E i \in FailedChecks :
                    /\ \A j \in FailedChecks : i <= j
                    /\ Returned.error_message = CheckErrors[i]
             /\ Returned.discount_amount = 0
             /\ Returned.final_amount = Asked

\* A coupon failing three checks at once was validated.
C13_Witness ==
    /\ Validated
    /\ Cardinality(FailedChecks) >= 3
    /\ 1 \notin FailedChecks

Min(a, b) == IF a <= b THEN a ELSE b

\* floor(amount * discount_value / 10000) for the coupon validated
Proportion == (Asked * Named.discount_value) \div BasisPoints

\* C14: for a percentage coupon that validates, in any state reachable through
\* coupon create and update, the discount is min(floor(amount * discount_value
\* / 10000), max_discount_amount if set), and it never exceeds the amount.
C14_PercentageDiscount ==
    (Validated /\ Returned.is_valid /\ Named.discount_type = "percentage") =>
        /\ Returned.discount_amount =
              IF IsNone(Named.max_discount_amount) THEN Proportion
              ELSE Min(Proportion, Val(Named.max_discount_amount))
        /\ Returned.discount_amount <= Asked

\* C15: for a fixed coupon that validates, the discount is
\* min(discount_value, order_amount).
C15_FixedDiscount ==
    (Validated /\ Returned.is_valid /\ Named.discount_type = "fixed") =>
        Returned.discount_amount = Min(Named.discount_value, Asked)

\* A fixed coupon worth more than the amount asked was validated.
C15_Witness ==
    /\ Validated /\ Returned.is_valid
    /\ Named.discount_type = "fixed"
    /\ Asked > 0
    /\ Named.discount_value > Asked
    /\ Returned.final_amount = 0

\* C16: validate changes no coupon, no order and no line item, and a validate
\* that follows at once a validate of the same code and amount, at the same
\* time, returns the same result.
C16_ValidateReadOnly ==
    [][last'.op = "validate_coupon" =>
          /\ UNCHANGED <<coupons, orders, details>>
          /\ (/\ last.op = "validate_coupon"
              /\ last.code = last'.code
              /\ Val(last.result).amount = Val(last'.result).amount
              /\ Val(last.result).at = Val(last'.result).at) =>
                 Val(last'.result).result = Val(last.result).result]_vars

\* A coupon with a usage limit and no use was validated, an order being stored.
C16_Witness ==
    /\ Validated /\ Returned.is_valid
    /\ ~IsNone(Named.usage_limit)
    /\ Named.used_count = 0
    /\ Named.is_active
    /\ orders # <<>>

\* C17: in validation and discount computation a field set to 0 constrains
\* by 0, only a null field is no constraint: a coupon at or over a set
\* usage_limit or below a set min_order_amount does not validate, and a
\* percentage discount is at most a set max_discount_amount.
C17_ZeroIsAConstraint ==
    Validated =>
        /\ (FailedChecks # {} => ~Returned.is_valid)
        /\ (/\ Returned.is_valid
            /\ Named.discount_type = "percentage"
            /\ ~IsNone(Named.max_discount_amount)) =>
               Returned.discount_amount <= Val(Named.max_discount_amount)

\* The orders that hold coupon c.
Holders(c) == {o \in DOMAIN orders : orders[o].coupon_id = Some(c)}

\* C18: when requests using the same coupon interleave, its used_count never
\* exceeds its usage_limit, and once the requests are done it has gone up by
\* exactly the number of orders that recorded the coupon.
C18_NoLostIncrement ==
    \A c \in DOMAIN coupons :
        /\ (~IsNone(coupons[c].usage_limit) =>
               coupons[c].used_count <= Val(coupons[c].usage_limit))
        /\ ((\A p \in Sessions : IsNone(sessions[p])) =>
               coupons[c].used_count = Cardinality(Holders(c)))

\* ---------------------------------------------- claims about availability
\* What the last request asked and was answered.
Answer == Val(last.result)

\* The instant asked about, normalised to UTC+8.
Instant == ensure_utc8(Answer.check_datetime)

\* Some time-off row of the stylist covers the instant, both ends included.
OnLeave ==
    \E k \in DOMAIN time_offs :
        /\ time_offs[k].stylist_id = Answer.stylist_id
        /\ time_offs[k].start_datetime <= Instant.wall
        /\ Instant.wall <= time_offs[k].end_datetime

\* Some schedule row of the stylist, for day (weekday + 1) mod 7 of the
\* instant, has the instant's time of day within its hours, both ends included.
OnShift ==
    \E k \in DOMAIN schedules :
        /\ schedules[k].stylist_id = Answer.stylist_id
        /\ schedules[k].day_of_week = (weekday(Instant) + 1) % 7
        /\ schedules[k].start_time <= time_of(Instant)
        /\ time_of(Instant) <= schedules[k].end_time

\* C19: is_stylist_available(stylist, instant) answers true exactly when no
\* time-off row of the stylist has start_datetime <= instant <= end_datetime
\* and a schedule row of the stylist exists for day (weekday + 1) mod 7 of the
\* instant normalised to UTC+8 with start_time <= time of day <= end_time;
\* with no schedule row for that day the stylist is unavailable.
C19_AvailableIffFreeAndOnShift ==
    last.op = "is_stylist_available" =>
        (Answer.available <=> ~OnLeave /\ OnShift)

\* A stylist with leave on another day is found available at the closing
\* minute of the Sunday shift, asked with an instant given in UTC.
C19_Witness ==
    /\ last.op = "is_stylist_available"
    /\ Answer.available
    /\ Answer.check_datetime.tz = Some(0)
    /\ weekday(Instant) = 6
    /\ \E k \in DOMAIN schedules :
          /\ schedules[k].stylist_id = Answer.stylist_id
          /\ schedules[k].day_of_week = 0
          /\ schedules[k].end_time = time_of(Instant)
    /\ \E k \in DOMAIN time_offs : time_offs[k].stylist_id = Answer.stylist_id

\* The schedule rows that a request about target_date looks at.
RowsOfTheDay ==
    {k \in DOMAIN schedules :
        /\ schedules[k].stylist_id = Answer.stylist_id
        /\ schedules[k].day_of_week = ((Answer.target_date % 7) + 1) % 7}

\* The stylist asked about has no time-off row.
NoTimeOff ==
    \A k \in DOMAIN time_offs : time_offs[k].stylist_id # Answer.stylist_id

\* floor((E - S) / d) for hours S..E; no slot fits hours that end before
\* they start.
SlotCount(S, E, d) == IF S <= E THEN (E - S) \div d ELSE 0

\* The i-th slot, counted from 0, of a day that starts at minute S of date.
Slot(date, S, d, i) ==
    LET from == date * MinutesPerDay + S + i * d
        to == from + d
    IN  [start_time |-> <<(from % MinutesPerDay) \div 60, from % 60>>,
         end_time   |-> <<(to % MinutesPerDay) \div 60, to % 60>>,
         start_date |-> Aware(UTC_8, from),
         end_date   |-> Aware(UTC_8, to)]

\* C20: for a stylist with no time-off whose schedule row for the weekday of
\* the date is [S, E], get_stylist_available_slots with slot length d returns
\* exactly floor((E - S) / d) slots, the i-th being [S + i*d, S + (i+1)*d),
\* in increasing order, not overlapping, none ending after E; with no
\* schedule row for that weekday it returns the empty list.
C20_SlotsTileTheShift ==
    last.op = "get_stylist_available_slots" =>
        /\ RowsOfTheDay = {} => last.ok /\ Answer.slots = <<>>
        /\ NoTimeOff =>
              \A k \in RowsOfTheDay :
                  LET S == schedules[k].start_time
                      E == schedules[k].end_time
                      d == Answer.slot_duration
                      n == SlotCount(S, E, d)
                      slots == Answer.slots
                  IN  /\ last.ok
                      /\ Len(slots) = n
                      /\ \A i \in 1..n :
                            slots[i] = Slot(Answer.target_date, S, d, i - 1)
                      /\ \A i \in 1..Len(slots) :
                            /\ slots[i].start_date.wall < slots[i].end_date.wall
                            /\ slots[i].end_date.wall
                                   <= Answer.target_date * MinutesPerDay + E
                            /\ i < Len(slots) =>
                                   slots[i].end_date.wall <= slots[i + 1].start_date.wall

\* Monday 09:00-17:00 cut into hours gives the eight slots 09:00 .. 16:00,
\* while the other stylist is on leave that Monday.
C20_Witness ==
    /\ last.op = "get_stylist_available_slots"
    /\ NoTimeOff
    /\ time_offs # <<>>
    /\ Answer.slot_duration = 60
    /\ \E k \in RowsOfTheDay :
          schedules[k].start_time = 540 /\ schedules[k].end_time = 1020
    /\ Len(Answer.slots) = 8
    /\ Answer.slots[1].start_time = <<9, 0>>
    /\ Answer.slots[8].start_time = <<16, 0>>
    /\ Answer.slots[8].end_time = <<17, 0>>

\* Some time-off row of the stylist asked about contains the slot whole.
Contained(slot) ==
    \E k \in DOMAIN time_offs :
        /\ time_offs[k].stylist_id = Answer.stylist_id
        /\ time_offs[k].start_datetime <= slot.start_date.wall
        /\ time_offs[k].end_datetime >= slot.end_date.wall

Kept(slot) == ~Contained(slot)

\* The candidate slots of a schedule row for the date and slot length asked.
Candidates(k) ==
    [i \in 1..SlotCount(schedules[k].start_time, schedules[k].end_time,
                        Answer.slot_duration) |->
        Slot(Answer.target_date, schedules[k].start_time,
             Answer.slot_duration, i - 1)]

\* C21: get_stylist_available_slots answers with the candidate slots
\* [s, s + d) of the schedule row, leaving out exactly those for which some
\* time-off row of the stylist has start <= s and end >= s + d; a time-off
\* that overlaps a slot only in part does not remove it.
C21_OmittedIffContained ==
    last.op = "get_stylist_available_slots" =>
        \A k \in RowsOfTheDay :
            /\ last.ok
            /\ Answer.slots = SelectSeq(Candidates(k), Kept)

\* ---------------------------------------------- claims about appointments
\* The appointments that stand in the way of the interval asked about.
Blocking ==
    {k \in DOMAIN appointments :
        /\ appointments[k].stylist_id = Answer.stylist_id
        /\ Some(k) # Answer.exclude_appointment_id
        /\ appointments[k].status \in {"confirmed", "in_progress"}
        /\ appointments[k].start_time < Answer.end_time
        /\ appointments[k].end_time > Answer.start_time}

\* C22: check_time_conflict(stylist, start, end, exclude) answers true exactly
\* when an appointment of that stylist other than exclude, in status
\* confirmed or in_progress, has existing.start < end and existing.end >
\* start; intervals that only touch do not conflict, and appointments in any
\* other status never cause a conflict.
C22_ConflictIffActiveOverlap ==
    last.op = "check_time_conflict" =>
        /\ Answer.conflict <=> Blocking # {}
        /\ Answer.conflict =>
              \E k \in DOMAIN appointments :
                  /\ appointments[k].status \notin
                        {"pending", "cancelled", "completed", "no_show"}
                  /\ appointments[k].end_time # Answer.start_time
                  /\ appointments[k].start_time # Answer.end_time

\* No conflict is reported for 11:00-12:00 although a confirmed appointment
\* of the stylist ends at 11:00 and a pending one overlaps the interval.
C22_Witness ==
    /\ last.op = "check_time_conflict"
    /\ ~Answer.conflict
    /\ \E k \in DOMAIN appointments :
          /\ appointments[k].stylist_id = Answer.stylist_id
          /\ appointments[k].status = "confirmed"
          /\ appointments[k].end_time = Answer.start_time
    /\ \E k \in DOMAIN appointments :
          /\ appointments[k].stylist_id = Answer.stylist_id
          /\ appointments[k].status = "pending"
          /\ appointments[k].start_time < Answer.end_time
          /\ appointments[k].end_time > Answer.start_time

\* C29: no two appointments of the same stylist that are both confirmed or
\* in_progress have overlapping half-open intervals [start_time, end_time).
C29_NoDoubleBooking ==
    \A j, k \in DOMAIN appointments :
        /\ j # k
        /\ appointments[j].stylist_id = appointments[k].stylist_id
        /\ appointments[j].status \in {"confirmed", "in_progress"}
        /\ appointments[k].status \in {"confirmed", "in_progress"}
        => \/ appointments[j].end_time <= appointments[k].start_time
           \/ appointments[k].end_time <= appointments[j].start_time

\* ------------------------------------------------ claims about schedule rows
\* C23: there is at most one schedule row per (stylist, day of week), also
\* when schedule requests interleave; setting a schedule for a pair that has
\* a row never produces a second row.
C23_OneRowPerStylistAndDay ==
    \A j, k \in DOMAIN schedules :
        /\ schedules[j].stylist_id = schedules[k].stylist_id
        /\ schedules[j].day_of_week = schedules[k].day_of_week
        => j = k

\* C24: every schedule row has start_time < end_time, also after an update
\* that sends only start_time or only end_time.
C24_StartBeforeEnd ==
    \A k \in DOMAIN schedules : schedules[k].start_time < schedules[k].end_time

\* --------------------------------------------- claims about opening hours
\* Minute t lies inside no closure and within the hours of a business-hours
\* row for its weekday (0 = Sunday .. 6 = Saturday) that is not closed.
OpenAt(t) ==
    /\ ~\E k \in DOMAIN closures :
          closures[k].start_datetime <= t /\ t <= closures[k].end_datetime
    /\ \E k \in DOMAIN business_hours :
          /\ business_hours[k].day_of_week = (((t \div MinutesPerDay) % 7) + 1) % 7
          /\ ~business_hours[k].is_closed
          /\ ~IsNone(business_hours[k].open_time)
          /\ ~IsNone(business_hours[k].close_time)
          /\ Val(business_hours[k].open_time) <= t % MinutesPerDay
          /\ t % MinutesPerDay <= Val(business_hours[k].close_time)

\* C25: is_store_open(instant) answers true exactly when no closure has
\* start_datetime <= instant <= end_datetime and a business-hours row for the
\* weekday of the instant exists, is not closed and has open_time <= time of
\* day <= close_time; a closure closes the store whatever the hours say.
C25_OpenIffHoursAndNoClosure ==
    last.op = "is_store_open" =>
        /\ last.ok
        /\ Answer.open <=> OpenAt(Answer.check_datetime.wall)

\* The seven days after from_datetime, in minutes.
SevenDays == 7 * MinutesPerDay

\* C26: get_next_open_time(from) answers the earliest instant t with
\* from < t <= from + 7 days that lies within the hours of its weekday and
\* inside no closure, and answers nothing only when there is no such instant.
C26_EarliestOpenInstant ==
    last.op = "get_next_open_time" =>
        LET from == Answer.from_datetime.wall
            window == (from + 1)..(from + SevenDays)
        IN  IF IsNone(Answer.next_open)
            THEN \A t \in window : ~OpenAt(t)
            ELSE /\ Val(Answer.next_open).wall \in window
                 /\ OpenAt(Val(Answer.next_open).wall)
                 /\ \A t \in (from + 1)..(Val(Answer.next_open).wall - 1) : ~OpenAt(t)

\* C27: a business-hours row with is_closed = true has open_time and
\* close_time both null, also after an update that sets only is_closed.
C27_ClosedDayHasNoTimes ==
    \A k \in DOMAIN business_hours :
        business_hours[k].is_closed =>
            /\ IsNone(business_hours[k].open_time)
            /\ IsNone(business_hours[k].close_time)

====
